---- MODULE Spec2Model ----
(***************************************************************************)
(* Model of the campaign extractors, of the scenario-to-Python converter   *)
(* and of the generator's validation loop of AOE2GENAI-SCENARIOS.          *)
(*                                                                         *)
(*   SpecScan : AOE2GENAI-SCENARIOS-main/extract_campaign.py               *)
(*              (find_scenario_offsets, extract_scenarios, main)           *)
(*   SpecDir  : extract_campaign.py (extract_campaign, __main__)           *)
(*   SpecConv : AOE2GENAI-SCENARIOS-main/scenario_to_python.py             *)
(*              (convert_scenario_to_python on a decoded scenario, main)   *)
(*   SpecItem : the same converter, rendering one condition or one effect  *)
(*   SpecGen  : AOE2GENAI-SCENARIOS-main/generator.py                      *)
(*              (ScenarioGenerator.generate_with_validation)               *)
(*                                                                         *)
(* Bytes are integers 0..255; a buffer is a sequence of bytes.  Python     *)
(* offsets are 0-based, TLA+ sequences are 1-based: byte data[o] of the    *)
(* source is d[o + 1] here.                                                *)
(***************************************************************************)
EXTENDS Integers, Sequences, FiniteSets, TLC

VARIABLES
    pc,               \* position of the running tool
    exists,           \* os.path.exists(campaign_path)
    data,             \* the bytes of the input file
    dirCreated,       \* os.makedirs(output_dir) has run
    files,            \* output directory: file name -> bytes written
    writes,           \* the open(..., 'wb') calls that succeeded, in order
    printed,          \* the messages printed so far, in order
    offsets,          \* extract_scenarios: offsets
    idx,              \* extract_scenarios: the loop variable i
    extracted_files,  \* extract_scenarios: extracted_files
    result,           \* the value returned ("none" while running)
    input,            \* extract_campaign: what the input file was built from
    pos,              \* extract_campaign: the position of the file object f
    scenario_count,   \* extract_campaign: scenario_count
    scenarios,        \* extract_campaign: scenarios
    error,            \* the exception that ended the run ("none" if none)
    model,            \* convert_scenario_to_python: the decoded scenario
    lines,            \* convert_scenario_to_python: lines
    outputs,          \* the python_code of every completed conversion
    item,             \* the condition or effect that is rendered on its own
    exit_status,      \* the exit status of the process (-1 while it runs)
    max_attempts,     \* generate_with_validation: max_attempts
    attempt,          \* generate_with_validation: the loop variable attempt
    description,      \* generate_with_validation: config.description
    requests,         \* the config.description of every generation request
    validations,      \* the result of every validate_scenario_code call
    code              \* generate_with_validation: code (0 while unbound)

scanVars == <<offsets, extracted_files>>

dirVars == <<input, pos, scenario_count, scenarios>>

convVars == <<model, lines, outputs, item>>

genVars == <<max_attempts, attempt, description, requests, validations, code>>

vars == <<pc, exists, data, dirCreated, files, writes, printed, idx, result,
          error, scanVars, dirVars, convVars, exit_status, genVars>>

(***************************************************************************)
(* Bounds                                                                  *)
(***************************************************************************)
\* a scanned buffer is the concatenation of at most MaxChunks chunks
MaxChunks == 5

(***************************************************************************)
(* Helpers                                                                 *)
(***************************************************************************)
Min(a, b) == IF a < b THEN a ELSE b

Max(a, b) == IF a > b THEN a ELSE b

\* Python's data[a:b] for 0 <= a, 0 <= b: both ends are clamped to len(data)
Slice(d, a, b) == SubSeq(d, Min(a, Len(d)) + 1, Min(b, Len(d)))

RECURSIVE SumSeq(_)
SumSeq(s) == IF s = <<>> THEN 0 ELSE Head(s) + SumSeq(Tail(s))

EmptyFiles == [n \in {} |-> <<>>]

\* open(path, 'wb') then write(bytes): creates the file or replaces its content
WriteFile(fs, name, bytes) == (name :> bytes) @@ fs

(***************************************************************************)
(* The heuristic scan: find_scenario_offsets                               *)
(***************************************************************************)
IsDigit(b) == b >= 48 /\ b <= 57

\* rb'1\.[0-9]{2}' matches at offset p
MatchAt(d, p) ==
    /\ p + 4 <= Len(d)
    /\ d[p + 1] = 49
    /\ d[p + 2] = 46
    /\ IsDigit(d[p + 3])
    /\ IsDigit(d[p + 4])

\* re.finditer: leftmost matches, the search resuming at the end of each match
RECURSIVE finditer(_, _)
finditer(d, p) ==
    IF p + 4 > Len(d) THEN <<>>
    ELSE IF MatchAt(d, p) THEN <<p>> \o finditer(d, p + 4)
    ELSE finditer(d, p + 1)

ZeroBytes == <<0, 0, 0, 0>>

\* the test of lines 23..25 without the comparison with four null bytes
ConfirmedLengthOnly(d, offset) == offset + 8 <= Len(d)

\* the test of lines 23..25 with "offset + 8 < len(data)"
ConfirmedStrict(d, offset) ==
    /\ offset + 8 < Len(d)
    /\ Slice(d, offset + 4, offset + 8) = ZeroBytes

\* lines 23..25: the match is followed by four null bytes
Confirmed(d, offset) ==
    /\ offset + 8 <= Len(d)
    /\ Slice(d, offset + 4, offset + 8) = ZeroBytes

\* lines 13..28 without the test of lines 23..25: every match is returned
find_all_matches(d) == finditer(d, 0)

find_scenario_offsets(d) ==
    SelectSeq(finditer(d, 0), LAMBDA offset : Confirmed(d, offset))

(***************************************************************************)
(* extract_scenarios                                                       *)
(***************************************************************************)
\* line 69 with the end of every entry at the end of the file
EndOffsetToEof(d, offs, i) == Len(d)

\* lines 68..71: start of the next scenario or end of the file (i is 0-based)
EndOffset(d, offs, i) ==
    IF i + 1 < Len(offs) THEN offs[i + 2] ELSE Len(d)

\* line 77 with the files numbered from 0: f"scenario_{i}.aoe2scenario"
ScenarioFilenameFromZero(i) == <<"scenario_", i, ".aoe2scenario">>

\* line 77: f"scenario_{i+1}.aoe2scenario"
ScenarioFilename(i) == <<"scenario_", i + 1, ".aoe2scenario">>

\* the buffers that are scanned: concatenations of these chunks
Chunks ==
    { <<49, 46, 53, 52>>,    \* "1.54"
      <<50, 46, 48, 48>>,    \* "2.00"
      ZeroBytes,
      <<49>>,                \* "1"
      <<46>>,                \* "."
      <<0>>,
      <<120>> }              \* "x"

RECURSIVE BuffersOf(_)
BuffersOf(n) ==
    IF n = 0 THEN {<<>>}
    ELSE LET prev == BuffersOf(n - 1)
         IN  prev \cup {b \o c : b \in prev, c \in Chunks}

\* the generator is not running
GenIdle ==
    /\ max_attempts = 0
    /\ attempt = 0
    /\ description = <<>>
    /\ requests = <<>>
    /\ validations = <<>>
    /\ code = 0

InitScan ==
    /\ pc = "start"
    /\ model = <<>>
    /\ lines = <<>>
    /\ outputs = <<>>
    /\ item = <<>>
    /\ exists \in BOOLEAN
    /\ data \in (IF exists THEN BuffersOf(MaxChunks) ELSE {<<>>})
    /\ dirCreated = FALSE
    /\ files = EmptyFiles
    /\ writes = <<>>
    /\ printed = <<>>
    /\ offsets = <<>>
    /\ idx = 0
    /\ extracted_files = <<>>
    /\ result = "none"
    /\ error = "none"
    /\ input = <<>>
    /\ pos = 0
    /\ scenario_count = 0
    /\ scenarios = <<>>
    /\ exit_status = -1
    /\ GenIdle

\* lines 34..36: the campaign file does not exist
ScanNotFound ==
    /\ pc = "start"
    /\ ~exists
    /\ printed' = Append(printed, <<"Error: File not found">>)
    /\ result' = <<>>
    /\ pc' = "done"
    /\ UNCHANGED <<exists, data, dirCreated, files, writes, idx, error,
                   scanVars, dirVars>>
    /\ UNCHANGED <<convVars, exit_status, genVars>>

\* lines 38..64 without the early return of lines 60..62
ScanOpenNoEmptyCheck ==
    /\ pc = "start"
    /\ exists
    /\ dirCreated' = TRUE
    /\ offsets' = find_scenario_offsets(data)
    /\ printed' = Append(printed, <<"Found scenarios", Len(offsets')>>)
    /\ pc' = "write"
    /\ UNCHANGED <<exists, data, files, writes, idx, extracted_files, result,
                   error, dirVars>>
    /\ UNCHANGED <<convVars, exit_status, genVars>>

\* lines 38..64: create the directory, read the file, scan it
ScanOpen ==
    /\ pc = "start"
    /\ exists
    /\ dirCreated' = TRUE
    /\ offsets' = find_scenario_offsets(data)
    /\ IF offsets' = <<>>
       THEN /\ printed' = printed \o <<<<"Found scenarios", 0>>,
                                       <<"No scenarios found in campaign file">>>>
            /\ result' = <<>>
            /\ pc' = "done"
       ELSE /\ printed' = Append(printed, <<"Found scenarios", Len(offsets')>>)
            /\ result' = result
            /\ pc' = "write"
    /\ UNCHANGED <<exists, data, files, writes, idx, extracted_files, error,
                   dirVars>>
    /\ UNCHANGED <<convVars, exit_status, genVars>>

\* lines 66..86: one iteration of the loop; open() or write() may raise
ScanWrite ==
    /\ pc = "write"
    /\ idx < Len(offsets)
    /\ LET start_offset == offsets[idx + 1]
           end_offset == EndOffset(data, offsets, idx)
           scenario_data == Slice(data, start_offset, end_offset)
           output_filename == ScenarioFilename(idx)
       IN  \E ok \in BOOLEAN :
             IF ok
             THEN /\ files' = WriteFile(files, output_filename, scenario_data)
                  /\ writes' = Append(writes, [name |-> output_filename,
                                                bytes |-> scenario_data])
                  /\ printed' = Append(printed, <<"Extracted", output_filename>>)
                  /\ extracted_files' = Append(extracted_files, output_filename)
                  /\ idx' = idx + 1
                  /\ UNCHANGED <<pc, error>>
             ELSE /\ pc' = "error"
                  /\ error' = "OSError"
                  /\ UNCHANGED <<files, writes, printed, extracted_files, idx>>
    /\ UNCHANGED <<exists, data, dirCreated, offsets, result, dirVars>>
    /\ UNCHANGED <<convVars, exit_status, genVars>>

\* lines 88..89: the loop is over
ScanReturn ==
    /\ pc = "write"
    /\ idx = Len(offsets)
    /\ printed' = Append(printed, <<"Scenarios extracted to">>)
    /\ result' = extracted_files
    /\ pc' = "done"
    /\ UNCHANGED <<exists, data, dirCreated, files, writes, idx, error,
                   scanVars, dirVars>>
    /\ UNCHANGED <<convVars, exit_status, genVars>>

\* lines 103..108 and the end of the process: main prints the hint for the
\* extracted files and returns (exit status 0); an uncaught exception ends
\* the interpreter with exit status 1
ScanMain ==
    /\ pc \in {"done", "error"}
    /\ exit_status = -1
    /\ printed' = IF pc = "done" /\ result # <<>>
                  THEN Append(printed, <<"You can now convert these to Python using">>)
                  ELSE printed
    /\ exit_status' = IF pc = "done" THEN 0 ELSE 1
    /\ UNCHANGED <<pc, exists, data, dirCreated, files, writes, idx, result,
                   error, scanVars, dirVars, convVars, genVars>>

NextScan == ScanNotFound \/ ScanOpen \/ ScanWrite \/ ScanReturn \/ ScanMain

SpecScan == InitScan /\ [][NextScan]_vars

\* the byte lengths of the entries extracted so far
EntryLengths == [k \in 1..Len(extracted_files) |-> Len(files[extracted_files[k]])]

\* extract_scenarios returned normally after a scan that confirmed N >= 1 offsets
ScanCompleted == pc = "done" /\ exists /\ offsets # <<>>

(***************************************************************************)
(* C1 (as stated): when the scan confirms N >= 1 offsets, the byte lengths  *)
(* of the N extracted entries sum to the length of the buffer.  Violated:  *)
(* the bytes before the first confirmed offset belong to no entry.         *)
(***************************************************************************)
C1_Original == ScanCompleted => SumSeq(EntryLengths) = Len(data)

(***************************************************************************)
(* C1 (amended): when the scan confirms N >= 1 offsets, the N entries are  *)
(* the consecutive ranges [offset_i, offset_i+1) with the last one ending  *)
(* at the end of the buffer, so their byte lengths sum to the length of    *)
(* the buffer minus the first confirmed offset.                            *)
(***************************************************************************)
C1_Amended ==
    ScanCompleted =>
        /\ Len(extracted_files) = Len(offsets)
        /\ SumSeq(EntryLengths) = Len(data) - offsets[1]
        /\ \A k \in 1..Len(offsets) :
              EntryLengths[k] =
                (IF k < Len(offsets) THEN offsets[k + 1] ELSE Len(data)) - offsets[k]

\* two entries were extracted from a buffer whose first marker is not at offset 0
C1_Witness == ScanCompleted /\ Len(offsets) = 2 /\ offsets[1] > 0

\* "1.54" followed by four zero bytes
Buf154 == <<49, 46, 53, 52, 0, 0, 0, 0>>

(***************************************************************************)
(* C9: for the 8-byte buffer "1.54" + four zero bytes the scan yields      *)
(* exactly the offset 0, and the extraction yields exactly one entry, which *)
(* holds all 8 bytes.                                                      *)
(***************************************************************************)
C9_MarkerAtEnd ==
    (exists /\ data = Buf154 /\ pc # "start") =>
        /\ offsets = <<0>>
        /\ pc = "done" =>
              /\ result = <<ScenarioFilename(0)>>
              /\ DOMAIN files = {ScenarioFilename(0)}
              /\ files[ScenarioFilename(0)] = data

C9_Witness == exists /\ data = Buf154 /\ pc = "done" /\ Len(result) = 1

(***************************************************************************)
(* C10: when the scan of an existing archive confirms no offset,           *)
(* extract_scenarios reports that no scenarios were found, returns the     *)
(* empty list, has written no file and has raised no error.                *)
(***************************************************************************)
C10_EmptyScan ==
    (exists /\ pc # "start" /\ offsets = <<>>) =>
        /\ pc = "done"
        /\ error = "none"
        /\ result = <<>>
        /\ files = EmptyFiles
        /\ writes = <<>>
        /\ \E k \in 1..Len(printed) : printed[k] = <<"No scenarios found in campaign file">>

\* a non-empty archive with an unconfirmed marker was scanned and nothing found
C10_Witness ==
    /\ exists /\ pc = "done" /\ offsets = <<>>
    /\ finditer(data, 0) # <<>>
    /\ result = <<>>

(***************************************************************************)
(* The directory-header extractor: extract_campaign                        *)
(***************************************************************************)
\* a campaign declares at most MaxScenarios scenarios and holds at most as many records
MaxScenarios == 2

\* at most MaxCut bytes are missing at the end of the input file
MaxCut == 6

RGE_STRING_ID == 2656

\* line 40: the campaign name is a field of 256 bytes
CampaignNameLen == 256

RECURSIVE Pow256(_)
Pow256(k) == IF k = 0 THEN 1 ELSE 256 * Pow256(k - 1)

\* f.read(n) at position p: the bytes that are left, at most n of them
Read(d, p, n) == Slice(d, p, p + n)

\* struct.unpack('<I' or '<H', b) raises struct.error unless len(b) is the size
StructUnpackFails(b, n) == Len(b) # n

\* the little-endian unsigned value of the bytes b
Unpack(b) == SumSeq([k \in 1..Len(b) |-> b[k] * Pow256(k - 1)])

\* bytes.decode('utf-8', errors='replace') of ASCII bytes and of the byte 0xFF,
\* which is never part of a UTF-8 sequence and is replaced by U+FFFD
DecodeUtf8Replace(b) == [k \in 1..Len(b) |-> IF b[k] < 128 THEN b[k] ELSE 65533]

\* bytes.decode('ascii') raises UnicodeDecodeError on a byte above 127
DecodeAsciiFails(b) == \E k \in 1..Len(b) : b[k] > 127

Version200 == <<50, 46, 48, 48>>

\* lines 19..46: the header, read from the start of the file
ParseHeader(d) ==
    LET version_bytes == Read(d, 0, 4)
        p1 == Len(version_bytes)
        depB == Read(d, p1, 4)
        p2 == p1 + Len(depB)
        dep_count == Unpack(depB)
        p3 == p2 + 4 * dep_count
        name_bytes == Read(d, p3, CampaignNameLen)
        p4 == p3 + Len(name_bytes)
        cntB == Read(d, p4, 4)
        warn == IF version_bytes # Version200
                THEN <<<<"Warning: Expected version 2.00">>>> ELSE <<>>
        fail(e, w) == [error |-> e, pos |-> 0, scenario_count |-> 0, warn |-> w]
    IN  IF DecodeAsciiFails(version_bytes) THEN fail("UnicodeDecodeError", <<>>)
        ELSE IF StructUnpackFails(depB, 4) THEN fail("struct.error", warn)
        ELSE IF p3 > Len(d) THEN fail("struct.error", warn)
        ELSE IF StructUnpackFails(cntB, 4) THEN fail("struct.error", warn)
        ELSE [error |-> "none", pos |-> p4 + 4, scenario_count |-> Unpack(cntB),
              warn |-> warn]

\* lines 58..59 and 67..68 without the print: a tag mismatch goes unnoticed
TagWarningSilent(tag) == <<>>

\* lines 58..59 and 67..68: the warning for a tag that is not RGE_STRING_ID
TagWarning(tag) ==
    IF tag # RGE_STRING_ID THEN <<<<"Warning: Unexpected string ID", tag>>>> ELSE <<>>

\* lines 53..79: one entry record, read at position p
ParseRecord(d, p) ==
    LET sizeB == Read(d, p, 4)
        offB == Read(d, p + 4, 4)
        tag1B == Read(d, p + 8, 2)
        nameLenB == Read(d, p + 10, 2)
        name_len == Unpack(nameLenB)
        nameB == Read(d, p + 12, name_len)
        p5 == p + 12 + Len(nameB)
        tag2B == Read(d, p5, 2)
        fnLenB == Read(d, p5 + 2, 2)
        filename_len == Unpack(fnLenB)
        filenameB == Read(d, p5 + 4, filename_len)
        fail(w) == [ok |-> FALSE, pos |-> p, warn |-> w]
    IN  IF StructUnpackFails(sizeB, 4) \/ StructUnpackFails(offB, 4)
           \/ StructUnpackFails(tag1B, 2)
        THEN fail(<<>>)
        ELSE IF StructUnpackFails(nameLenB, 2) \/ StructUnpackFails(tag2B, 2)
        THEN fail(TagWarning(Unpack(tag1B)))
        ELSE IF StructUnpackFails(fnLenB, 2)
        THEN fail(TagWarning(Unpack(tag1B)) \o TagWarning(Unpack(tag2B)))
        ELSE [ok |-> TRUE,
              pos |-> p5 + 4 + Len(filenameB),
              warn |-> TagWarning(Unpack(tag1B)) \o TagWarning(Unpack(tag2B)),
              entry |-> [size |-> Unpack(sizeB),
                         offset |-> Unpack(offB),
                         name |-> DecodeUtf8Replace(nameB),
                         filename |-> DecodeUtf8Replace(filenameB)]]

\* line 51 with the loop left after the first record
MoreRecordsFirstOnly(i, count) == i < count /\ i < 1

\* line 51 with the loop one iteration short
MoreRecordsOffByOne(i, count) == i + 1 < count

\* line 51: for i in range(scenario_count)
MoreRecords(i, count) == i < count

\* lines 90..91: f.seek(offset); f.read(size)
SeekRead(d, offset, size) == Read(d, offset, size)

(***************************************************************************)
(* The input files of extract_campaign: a header, records, the scenario    *)
(* bytes, with up to MaxCut bytes missing at the end.                      *)
(***************************************************************************)
U16(n) == <<n % 256, (n \div 256) % 256>>

U32(n) == <<n % 256, (n \div 256) % 256, (n \div 65536) % 256, (n \div 16777216) % 256>>

\* the scenario bytes that follow the records
Payload == <<80, 81, 82>>

\* rel: the offset is counted from the start of the scenario bytes
RecordKinds ==
    { [size |-> 3, rel |-> TRUE, off |-> 0, tag1 |-> RGE_STRING_ID,
       tag2 |-> RGE_STRING_ID, name |-> <<110>>, filename |-> <<97, 49>>],
      [size |-> 2, rel |-> FALSE, off |-> 0, tag1 |-> 4660,
       tag2 |-> RGE_STRING_ID, name |-> <<>>, filename |-> <<98, 49>>],
      [size |-> 1000, rel |-> TRUE, off |-> 1, tag1 |-> RGE_STRING_ID,
       tag2 |-> 4660, name |-> <<110>>, filename |-> <<97, 49>>],
      [size |-> 1, rel |-> FALSE, off |-> 1000, tag1 |-> RGE_STRING_ID,
       tag2 |-> RGE_STRING_ID, name |-> <<110, 255>>, filename |-> <<99, 255>>],
      [size |-> 0, rel |-> TRUE, off |-> 2, tag1 |-> RGE_STRING_ID,
       tag2 |-> RGE_STRING_ID, name |-> <<110>>, filename |-> <<>>] }

HeaderKinds ==
    { [version |-> Version200, deps |-> <<7>>],
      [version |-> <<49, 46, 51, 54>>, deps |-> <<>>],
      [version |-> <<255, 46, 48, 48>>, deps |-> <<>>] }

RECURSIVE RecordSeqs(_)
RecordSeqs(n) ==
    IF n = 0 THEN {<<>>}
    ELSE LET prev == RecordSeqs(n - 1)
         IN  prev \cup {Append(rs, r) : rs \in prev, r \in RecordKinds}

RecordLen(r) == 16 + Len(r.name) + Len(r.filename)

HeaderLen(h) == 12 + 4 * Len(h.deps) + CampaignNameLen

RECURSIVE Flatten(_)
Flatten(ss) == IF ss = <<>> THEN <<>> ELSE Head(ss) \o Flatten(Tail(ss))

\* the absolute offset of the first scenario byte
PayloadStart(in) ==
    HeaderLen(in.hdr) + SumSeq([k \in 1..Len(in.recs) |-> RecordLen(in.recs[k])])

\* the offset that record r declares
DeclaredOffset(in, r) == IF r.rel THEN PayloadStart(in) + r.off ELSE r.off

EncodeRecord(in, r) ==
    U32(r.size) \o U32(DeclaredOffset(in, r)) \o U16(r.tag1) \o U16(Len(r.name))
    \o r.name \o U16(r.tag2) \o U16(Len(r.filename)) \o r.filename

EncodeHeader(in) ==
    in.hdr.version \o U32(Len(in.hdr.deps))
    \o Flatten([k \in 1..Len(in.hdr.deps) |-> U32(in.hdr.deps[k])])
    \o <<99>> \o [k \in 1..(CampaignNameLen - 1) |-> 0]
    \o U32(in.count)

FullFile(in) ==
    EncodeHeader(in)
    \o Flatten([k \in 1..Len(in.recs) |-> EncodeRecord(in, in.recs[k])])
    \o Payload

BuildFile(in) == SubSeq(FullFile(in), 1, Len(FullFile(in)) - in.cut)

Inputs ==
    [hdr : HeaderKinds, count : 0..MaxScenarios, recs : RecordSeqs(MaxScenarios),
     cut : 0..MaxCut]

InitDir ==
    /\ pc = "start"
    /\ model = <<>>
    /\ lines = <<>>
    /\ outputs = <<>>
    /\ item = <<>>
    /\ exists \in BOOLEAN
    /\ input \in (IF exists THEN Inputs
                  ELSE {[hdr |-> [version |-> Version200, deps |-> <<>>],
                         count |-> 0, recs |-> <<>>, cut |-> 0]})
    /\ data = (IF exists THEN BuildFile(input) ELSE <<>>)
    /\ dirCreated = FALSE
    /\ files = EmptyFiles
    /\ writes = <<>>
    /\ printed = <<>>
    /\ idx = 0
    /\ result = "none"
    /\ error = "none"
    /\ pos = 0
    /\ scenario_count = 0
    /\ scenarios = <<>>
    /\ exit_status = -1
    /\ GenIdle
    /\ offsets = <<>>
    /\ extracted_files = <<>>

\* lines 114..116: the campaign file does not exist
DirNotFound ==
    /\ pc = "start"
    /\ ~exists
    /\ printed' = Append(printed, <<"Error: File not found">>)
    /\ exit_status' = 1
    /\ pc' = "exit"
    /\ UNCHANGED <<exists, data, dirCreated, files, writes, idx, result, error,
                   scanVars, dirVars, convVars, genVars>>

\* lines 14..47: create the directory, open the file, read the header
DirHeader ==
    /\ pc = "start"
    /\ exists
    /\ dirCreated' = TRUE
    /\ LET h == ParseHeader(data)
       IN  /\ printed' = printed \o h.warn
           /\ error' = h.error
           /\ pos' = h.pos
           /\ scenario_count' = h.scenario_count
           /\ pc' = IF h.error = "none" THEN "records" ELSE "error"
    /\ UNCHANGED <<exists, data, files, writes, idx, result, input, scenarios,
                   scanVars>>
    /\ UNCHANGED <<convVars, exit_status, genVars>>

\* lines 51..84: one iteration of the loop over the records
DirRecord ==
    /\ pc = "records"
    /\ MoreRecords(idx, scenario_count)
    /\ LET r == ParseRecord(data, pos)
       IN  IF r.ok
           THEN /\ scenarios' = Append(scenarios, r.entry)
                /\ pos' = r.pos
                /\ printed' = printed \o r.warn \o <<<<"Scenario", idx + 1>>>>
                /\ idx' = idx + 1
                /\ UNCHANGED <<pc, error>>
           ELSE /\ pc' = "error"
                /\ error' = "struct.error"
                /\ printed' = printed \o r.warn
                /\ UNCHANGED <<scenarios, pos, idx>>
    /\ UNCHANGED <<exists, data, dirCreated, files, writes, result, input,
                   scenario_count, scanVars>>
    /\ UNCHANGED <<convVars, exit_status, genVars>>

\* line 86: all the records are read
DirRecordsDone ==
    /\ pc = "records"
    /\ ~MoreRecords(idx, scenario_count)
    /\ pc' = "extract"
    /\ idx' = 0
    /\ UNCHANGED <<exists, data, dirCreated, files, writes, printed, result,
                   error, input, pos, scenario_count, scenarios, scanVars>>
    /\ UNCHANGED <<convVars, exit_status, genVars>>

\* lines 89..97: one iteration of the loop over the scenarios; open() raises
\* IsADirectoryError for the empty filename, and open() or write() may fail
DirExtract ==
    /\ pc = "extract"
    /\ idx < Len(scenarios)
    /\ LET scenario == scenarios[idx + 1]
           bytes == SeekRead(data, scenario.offset, scenario.size)
       IN  /\ pos' = scenario.offset + Len(bytes)
           /\ IF scenario.filename = <<>>
              THEN /\ pc' = "error"
                   /\ error' = "IsADirectoryError"
                   /\ UNCHANGED <<files, writes, printed, idx>>
              ELSE \E ok \in BOOLEAN :
                     IF ok
                     THEN /\ files' = WriteFile(files, scenario.filename, bytes)
                          /\ writes' = Append(writes, [name |-> scenario.filename,
                                                        bytes |-> bytes])
                          /\ printed' = Append(printed, <<"Extracted", scenario.filename>>)
                          /\ idx' = idx + 1
                          /\ UNCHANGED <<pc, error>>
                     ELSE /\ pc' = "error"
                          /\ error' = "OSError"
                          /\ UNCHANGED <<files, writes, printed, idx>>
    /\ UNCHANGED <<exists, data, dirCreated, result, input, scenario_count,
                   scenarios, scanVars>>
    /\ UNCHANGED <<convVars, exit_status, genVars>>

\* lines 99..100: the loop is over
DirReturn ==
    /\ pc = "extract"
    /\ idx = Len(scenarios)
    /\ printed' = Append(printed, <<"All scenarios extracted", scenario_count>>)
    /\ result' = "output_dir"
    /\ pc' = "done"
    /\ UNCHANGED <<exists, data, dirCreated, files, writes, idx, error, dirVars,
                   scanVars>>
    /\ UNCHANGED <<convVars, exit_status, genVars>>

\* line 118 and the end of the process: exit status 0 after extract_campaign
\* returns, 1 after an uncaught exception
DirExit ==
    /\ pc \in {"done", "error"}
    /\ exit_status = -1
    /\ exit_status' = IF pc = "done" THEN 0 ELSE 1
    /\ UNCHANGED <<pc, exists, data, dirCreated, files, writes, printed, idx,
                   result, error, scanVars, dirVars, convVars, genVars>>

NextDir ==
    \/ DirNotFound \/ DirHeader \/ DirRecord \/ DirRecordsDone \/ DirExtract
    \/ DirReturn \/ DirExit

SpecDir == InitDir /\ [][NextDir]_vars

(***************************************************************************)
(* C2 (as stated): the number of bytes written for an entry equals the     *)
(* entry's declared size, whatever the declared offset and size.  Violated: *)
(* f.read(size) returns only the bytes that are left after the offset.     *)
(***************************************************************************)
C2_Original ==
    \A k \in 1..Len(writes) : Len(writes[k].bytes) = scenarios[k].size

\* the records that the header declares
DeclaredRecords == SubSeq(input.recs, 1, Min(input.count, Len(input.recs)))

(***************************************************************************)
(* C3: when extract_campaign returns normally, the number of records read  *)
(* and the number of entries extracted both equal the scenario_count of    *)
(* the header, and the k-th entry is the k-th declared record.             *)
(***************************************************************************)
C3_CountAndOrder ==
    pc = "done" =>
        /\ scenario_count = input.count
        /\ Len(scenarios) = scenario_count
        /\ Len(writes) = scenario_count
        /\ Len(DeclaredRecords) = scenario_count
        /\ \A k \in 1..Len(scenarios) :
             /\ scenarios[k].size = DeclaredRecords[k].size
             /\ scenarios[k].offset = DeclaredOffset(input, DeclaredRecords[k])
             /\ writes[k].name = scenarios[k].filename

\* two different declared records were read and extracted
C3_Witness ==
    /\ pc = "done"
    /\ scenario_count = 2
    /\ Len(writes) = 2
    /\ scenarios[1].size # scenarios[2].size

\* where the last declared record ends in the complete file
DeclaredRecordsEnd ==
    HeaderLen(input.hdr)
    + SumSeq([k \in 1..Len(DeclaredRecords) |-> RecordLen(DeclaredRecords[k])])

\* the header is read, and the file ends before a field of a declared record
RecordsTruncated ==
    /\ ParseHeader(data).error = "none"
    /\ \/ Len(input.recs) < input.count
       \/ Len(data) < DeclaredRecordsEnd

(***************************************************************************)
(* C4 (as stated): when the file ends before the fields of a declared      *)
(* record can be read, extract_campaign fails with an error while reading  *)
(* the records, and never goes on to the extraction.  Violated: a filename *)
(* (or name) cut short by the end of the file is accepted as read.         *)
(***************************************************************************)
C4_Original ==
    (pc # "start" /\ RecordsTruncated) =>
        \/ pc = "records"
        \/ pc = "error" /\ error = "struct.error"

(***************************************************************************)
(* The converter: scenario_to_python.py                                    *)
(*                                                                         *)
(* A line of the generated code is a record whose kind names the f-string  *)
(* that produced it and whose other fields are the values interpolated.    *)
(* A named parameter is <<name, value>>; a value is <<"num", n>> for an    *)
(* integer rendered in decimal, <<"sym", s>> for a symbol, <<"str", cs>>   *)
(* for a quoted string of characters cs.  The decoded attributes of a      *)
(* condition or effect are integers (the library's unset value is -1); a   *)
(* player is [enum |-> FALSE, v |-> n] for a plain integer n and           *)
(* [enum |-> TRUE, v |-> n] for an enum-like object whose .value is n.     *)
(***************************************************************************)
None == "None"

CONDITION_NAMES ==
    0 :> None @@ 1 :> "bring_object_to_area" @@
    2 :> "bring_object_to_object" @@ 3 :> "own_objects" @@
    4 :> "accumulate_attribute" @@ 5 :> "objects_in_area" @@
    6 :> "destroy_object" @@ 7 :> "capture_object" @@ 8 :> "timer" @@
    9 :> "own_fewer_objects" @@ 10 :> "timer" @@ 11 :> "object_selected" @@
    12 :> "ai_signal" @@ 13 :> "player_defeated" @@
    14 :> "object_has_target" @@ 15 :> "object_visible" @@
    16 :> "object_not_visible" @@ 17 :> "researching_technology" @@
    18 :> "technology_state" @@ 19 :> "units_garrisoned" @@
    20 :> "difficulty_level" @@ 21 :> "chance" @@ 22 :> "technology_state" @@
    23 :> "variable_value" @@ 24 :> "object_hp" @@ 25 :> "diplomacy_state" @@
    26 :> "script_call" @@ 27 :> "object_visible_multiplayer" @@
    28 :> "object_selected_multiplayer" @@ 29 :> "object_has_action" @@
    30 :> "or" @@ 31 :> "ai_signal_multiplayer" @@ 32 :> "xs_function" @@
    33 :> "victory_timer"

EFFECT_NAMES ==
    0 :> None @@ 1 :> "change_diplomacy" @@ 2 :> "research_technology" @@
    3 :> "send_chat" @@ 4 :> "play_sound" @@ 5 :> "activate_trigger" @@
    6 :> "deactivate_trigger" @@ 7 :> "ai_script_goal" @@
    8 :> "create_object" @@ 9 :> "task_object" @@ 10 :> "declare_victory" @@
    11 :> "kill_object" @@ 12 :> "remove_object" @@ 13 :> "change_view" @@
    14 :> "unload" @@ 15 :> "change_ownership" @@ 16 :> "patrol" @@
    17 :> "display_instructions" @@ 18 :> "clear_instructions" @@
    19 :> "patrol" @@ 20 :> "freeze_object" @@
    21 :> "use_advanced_buttons" @@ 22 :> "damage_object" @@
    23 :> "place_foundation" @@ 24 :> "change_object_name" @@
    25 :> "change_object_hp" @@ 26 :> "change_object_attack" @@
    27 :> "stop_object" @@ 28 :> "attack_move" @@
    29 :> "change_object_armor" @@ 30 :> "change_object_range" @@
    31 :> "change_object_speed" @@ 32 :> "heal_object" @@
    33 :> "teleport_object" @@ 34 :> "change_object_stance" @@
    35 :> "display_timer" @@ 36 :> "enable_disable_object" @@
    37 :> "enable_disable_technology" @@ 38 :> "enable_unit_targeting" @@
    39 :> "flash_objects" @@ 40 :> "change_player_name" @@
    41 :> "change_train_location" @@ 42 :> "change_research_location" @@
    43 :> "change_civilization_name" @@ 44 :> "create_garrisoned_object" @@
    45 :> "acknowledge_ai_signal" @@ 46 :> "change_object_description" @@
    47 :> "change_player_color" @@ 48 :> "tribute" @@ 49 :> "unlock_gate" @@
    50 :> "lock_gate" @@ 51 :> "activate_trigger" @@
    52 :> "deactivate_trigger" @@ 53 :> "ai_script_goal" @@
    54 :> "change_variable" @@ 55 :> "script_call" @@
    56 :> "change_object_icon" @@ 57 :> "replace_object" @@
    58 :> "change_object_player_color" @@ 59 :> "display_text" @@
    60 :> "change_technology_cost" @@
    61 :> "change_technology_research_time" @@
    62 :> "change_technology_name" @@ 63 :> "change_technology_description"

EFFECT_VALID_PARAMS ==
  [ display_instructions |-> {"source_player", "message", "display_time"},
    send_chat |-> {"source_player", "message"},
    freeze_object |-> {"source_player", "area_x1", "area_y1", "area_x2",
        "area_y2", "object_list_unit_id"},
    change_object_name |-> {"source_player", "message", "area_x1", "area_y1",
        "area_x2", "area_y2", "object_list_unit_id"},
    change_object_attack |-> {"source_player", "area_x1", "area_y1",
        "area_x2", "area_y2", "object_list_unit_id", "quantity"},
    change_object_armor |-> {"source_player", "area_x1", "area_y1",
        "area_x2", "area_y2", "object_list_unit_id", "quantity"},
    change_object_range |-> {"source_player", "area_x1", "area_y1",
        "area_x2", "area_y2", "object_list_unit_id", "quantity"},
    change_object_speed |-> {"source_player", "area_x1", "area_y1",
        "area_x2", "area_y2", "object_list_unit_id", "quantity"},
    change_object_hp |-> {"source_player", "area_x1", "area_y1", "area_x2",
        "area_y2", "object_list_unit_id", "quantity"},
    attack_move |-> {"source_player", "location_x", "location_y", "area_x1",
        "area_y1", "area_x2", "area_y2", "object_list_unit_id"},
    task_object |-> {"source_player", "location_x", "location_y", "area_x1",
        "area_y1", "area_x2", "area_y2", "object_list_unit_id"},
    patrol |-> {"source_player", "location_x", "location_y", "area_x1",
        "area_y1", "area_x2", "area_y2", "object_list_unit_id"},
    create_object |-> {"source_player", "location_x", "location_y",
        "object_list_unit_id"},
    kill_object |-> {"source_player", "area_x1", "area_y1", "area_x2",
        "area_y2", "object_list_unit_id"},
    remove_object |-> {"source_player", "area_x1", "area_y1", "area_x2",
        "area_y2", "object_list_unit_id"},
    change_view |-> {"source_player", "location_x", "location_y"},
    change_ownership |-> {"source_player", "target_player", "area_x1",
        "area_y1", "area_x2", "area_y2", "object_list_unit_id"},
    research_technology |-> {"source_player", "technology"},
    change_diplomacy |-> {"source_player", "target_player", "diplomacy"},
    activate_trigger |-> {"trigger_id"},
    deactivate_trigger |-> {"trigger_id"},
    declare_victory |-> {"source_player"},
    play_sound |-> {"source_player", "location_x", "location_y", "sound_name"},
    damage_object |-> {"source_player", "area_x1", "area_y1", "area_x2",
        "area_y2", "object_list_unit_id", "quantity"},
    heal_object |-> {"source_player", "area_x1", "area_y1", "area_x2",
        "area_y2", "object_list_unit_id", "quantity"},
    teleport_object |-> {"source_player", "location_x", "location_y",
        "area_x1", "area_y1", "area_x2", "area_y2", "object_list_unit_id"},
    stop_object |-> {"source_player", "area_x1", "area_y1", "area_x2",
        "area_y2", "object_list_unit_id"},
    change_object_stance |-> {"source_player", "area_x1", "area_y1",
        "area_x2", "area_y2", "object_list_unit_id"},
    display_timer |-> {"source_player", "message", "display_time"},
    enable_disable_object |-> {"source_player", "object_list_unit_id",
        "enabled"},
    enable_disable_technology |-> {"source_player", "enabled", "technology"},
    change_player_name |-> {"source_player", "message"},
    change_civilization_name |-> {"source_player", "message"},
    change_object_description |-> {"source_player", "message",
        "object_list_unit_id"},
    tribute |-> {"source_player", "target_player", "quantity"},
    unlock_gate |-> {"source_player", "area_x1", "area_y1", "area_x2",
        "area_y2", "object_list_unit_id"},
    lock_gate |-> {"source_player", "area_x1", "area_y1", "area_x2",
        "area_y2", "object_list_unit_id"},
    flash_objects |-> {"source_player", "area_x1", "area_y1", "area_x2",
        "area_y2", "object_list_unit_id"},
    change_player_color |-> {"source_player", "player_color"},
    display_text |-> {"source_player", "message", "display_time"} ]

\* dict.get(key): None for a key that is not in the dictionary
DictGet(dict, key) == IF key \in DOMAIN dict THEN dict[key] ELSE None

\* lines 197..207: player_map
player_map ==
    0 :> "PlayerId.GAIA" @@ 1 :> "PlayerId.ONE" @@ 2 :> "PlayerId.TWO" @@
    3 :> "PlayerId.THREE" @@ 4 :> "PlayerId.FOUR" @@ 5 :> "PlayerId.FIVE" @@
    6 :> "PlayerId.SIX" @@ 7 :> "PlayerId.SEVEN" @@ 8 :> "PlayerId.EIGHT"

\* a lookup that takes the player number as an index into the list of names,
\* as Python indexes a list: -1 is the last element
get_player_name_by_index(player_id) == player_map[player_id.v % 9]

\* lines 195..219
get_player_name(player_id) ==
    IF ~player_id.enum /\ player_id.v = -1 THEN None
    ELSE IF player_id.enum
         THEN IF player_id.v = -1 THEN None ELSE DictGet(player_map, player_id.v)
         ELSE DictGet(player_map, player_id.v)

\* lines 222..230, for a type code that is a plain integer
get_condition_name(cond_type) == DictGet(CONDITION_NAMES, cond_type)

\* lines 233..241, for a type code that is a plain integer
get_effect_name(effect_type) == DictGet(EFFECT_NAMES, effect_type)

\* the unit IDs of the library's datasets that the scenarios here use, as
\* build_unit_id_map (lines 175..192) names them
unit_id_map ==
    4 :> "UnitInfo.ARCHER.ID" @@ 109 :> "BuildingInfo.TOWN_CENTER.ID"

Num(n) == <<"num", n>>

Sym(s) == <<"sym", s>>

Str(cs) == <<"str", cs>>

RECURSIVE Flatten1(_)
Flatten1(ss) == IF ss = <<>> THEN <<>> ELSE Head(ss) \o Flatten1(Tail(ss))

\* str.replace of one character by a string, over the whole text
ReplaceChar(cs, c, by) ==
    Flatten1([k \in 1..Len(cs) |-> IF cs[k] = c THEN by ELSE <<cs[k]>>])

\* line 427: replace('"', '\\"').replace('\n', '\\n')
EscapeMessage(cs) ==
    ReplaceChar(ReplaceChar(cs, "\"", <<"\\", "\"">>), "\n", <<"\\", "n">>)

\* line 346: replace('"', '\\"').replace('\n', ' ')
EscapeName(cs) ==
    ReplaceChar(ReplaceChar(cs, "\"", <<"\\", "\"">>), "\n", <<" ">>)

\* line 360 with the continue alone: the condition is dropped without a line
SkippedConditionSilently(cond) == <<>>

\* line 360: '# Skipped condition type: {cond.condition_type}'
SkippedCondition(cond) ==
    <<[kind |-> "# Skipped condition type", code |-> cond.condition_type]>>

\* line 401: '# Skipped effect type: {effect.effect_type}'
SkippedEffect(effect) ==
    <<[kind |-> "# Skipped effect type", code |-> effect.effect_type]>>

\* lines 364..390: params of a condition
ConditionParams(cond, cond_method) ==
    (IF cond_method = "timer" /\ cond.timer > 0
     THEN <<<<"", Num(cond.timer)>>>> ELSE <<>>)
    \o (IF cond.quantity # -1
        THEN <<<<"quantity", Num(cond.quantity)>>>> ELSE <<>>)
    \o (IF get_player_name(cond.source_player) # None
        THEN <<<<"source_player", Sym(get_player_name(cond.source_player))>>>>
        ELSE <<>>)
    \o (IF cond.unit_object # -1
        THEN <<<<"unit_object", Num(cond.unit_object)>>>> ELSE <<>>)
    \o (IF cond.area_x1 # -1
        THEN <<<<"area_x1", Num(cond.area_x1)>>, <<"area_y1", Num(cond.area_y1)>>,
               <<"area_x2", Num(cond.area_x2)>>, <<"area_y2", Num(cond.area_y2)>>>>
        ELSE <<>>)

\* lines 357..393: the lines appended for one condition of trigger_{i}
ConditionLines(i, cond) ==
    LET cond_method == get_condition_name(cond.condition_type)
    IN  IF cond_method = None THEN SkippedCondition(cond)
        ELSE <<[kind |-> "new_condition", var |-> i, method |-> cond_method,
                params |-> ConditionParams(cond, cond_method)]>>

\* line 405 without the whitelist: every parameter is taken as valid
AllParams(effect_method) ==
    {"source_player", "target_player", "message", "display_time", "location_x",
     "location_y", "area_x1", "area_y1", "area_x2", "area_y2",
     "object_list_unit_id", "quantity"}

\* line 405: EFFECT_VALID_PARAMS.get(effect_method, set())
ValidParams(effect_method) ==
    IF effect_method \in DOMAIN EFFECT_VALID_PARAMS
    THEN EFFECT_VALID_PARAMS[effect_method] ELSE {}

\* lines 408..462: params of an effect
EffectParams(effect, effect_method) ==
    LET valid_params == ValidParams(effect_method)
    IN  (IF "source_player" \in valid_params
            /\ get_player_name(effect.source_player) # None
         THEN <<<<"source_player", Sym(get_player_name(effect.source_player))>>>>
         ELSE <<>>)
        \o (IF "target_player" \in valid_params
               /\ get_player_name(effect.target_player) # None
            THEN <<<<"target_player", Sym(get_player_name(effect.target_player))>>>>
            ELSE <<>>)
        \o (IF "message" \in valid_params /\ effect.message # <<>>
            THEN <<<<"message", Str(EscapeMessage(effect.message))>>>> ELSE <<>>)
        \o (IF "display_time" \in valid_params /\ effect.display_time > 0
            THEN <<<<"display_time", Num(effect.display_time)>>>> ELSE <<>>)
        \o (IF "location_x" \in valid_params /\ effect.location_x # -1
            THEN <<<<"location_x", Num(effect.location_x)>>>>
                 \o (IF "location_y" \in valid_params
                     THEN <<<<"location_y", Num(effect.location_y)>>>> ELSE <<>>)
            ELSE <<>>)
        \o (IF "area_x1" \in valid_params /\ effect.area_x1 # -1
            THEN <<<<"area_x1", Num(effect.area_x1)>>>>
                 \o (IF "area_y1" \in valid_params
                     THEN <<<<"area_y1", Num(effect.area_y1)>>>> ELSE <<>>)
                 \o (IF "area_x2" \in valid_params
                     THEN <<<<"area_x2", Num(effect.area_x2)>>>> ELSE <<>>)
                 \o (IF "area_y2" \in valid_params
                     THEN <<<<"area_y2", Num(effect.area_y2)>>>> ELSE <<>>)
            ELSE <<>>)
        \o (IF "object_list_unit_id" \in valid_params
               /\ effect.object_list_unit_id # -1
            THEN <<<<"object_list_unit_id",
                     IF effect.object_list_unit_id \in DOMAIN unit_id_map
                     THEN Sym(unit_id_map[effect.object_list_unit_id])
                     ELSE Num(effect.object_list_unit_id)>>>>
            ELSE <<>>)
        \o (IF "quantity" \in valid_params /\ effect.quantity # -1
            THEN <<<<"quantity", Num(effect.quantity)>>>> ELSE <<>>)

\* lines 398..465: the lines appended for one effect of trigger_{i}
EffectLines(i, effect) ==
    LET effect_method == get_effect_name(effect.effect_type)
    IN  IF effect_method = None THEN SkippedEffect(effect)
        ELSE <<[kind |-> "new_effect", var |-> i, method |-> effect_method,
                params |-> EffectParams(effect, effect_method)]>>

(***************************************************************************)
(* SpecItem: one condition or one effect, with every combination of set    *)
(* and unset generic fields, rendered as a statement of trigger_0.         *)
(***************************************************************************)
IntPlayer(n) == [enum |-> FALSE, v |-> n]

EnumPlayer(n) == [enum |-> TRUE, v |-> n]

SourcePlayers == {IntPlayer(-1), EnumPlayer(-1), IntPlayer(1), EnumPlayer(0)}

TargetPlayers == {IntPlayer(-1), EnumPlayer(-1), IntPlayer(2)}

\* (area_y1, area_x2, area_y2): all unset, all set, one unset
AreaRests == {<<-1, -1, -1>>, <<2, 7, 8>>, <<-1, 7, 8>>, <<2, -1, 8>>, <<2, 7, -1>>}

\* NONE, known operations, and codes outside CONDITION_NAMES
ItemConditionTypes == {0, 3, 6, 8, 34, 99}

\* NONE, operations with a whitelist, one without (54), and codes outside EFFECT_NAMES
ItemEffectTypes == {0, 3, 5, 6, 8, 15, 17, 48, 54, 64}

\* the trigger_id of an effect of type t: a reference to a trigger (0-based)
\* for activate_trigger and deactivate_trigger, unset (-1) otherwise
TriggerRefs(t) == IF t \in {5, 6} THEN {0, 7} ELSE {-1}

\* a condition with the given fields
Condition(t, tm, q, sp, uo, x1, r) ==
    [condition_type |-> t, timer |-> tm, quantity |-> q, source_player |-> sp,
     unit_object |-> uo, area_x1 |-> x1, area_y1 |-> r[1], area_x2 |-> r[2],
     area_y2 |-> r[3]]

\* an effect with the given fields
Effect(t, sp, tp, msg, dt, lx, ly, x1, r, u, q, tid) ==
    [effect_type |-> t, source_player |-> sp, target_player |-> tp,
     message |-> msg, display_time |-> dt, location_x |-> lx, location_y |-> ly,
     area_x1 |-> x1, area_y1 |-> r[1], area_x2 |-> r[2], area_y2 |-> r[3],
     object_list_unit_id |-> u, quantity |-> q, trigger_id |-> tid]

InitItem ==
    /\ pc = "item"
    /\ \/ \E t \in ItemConditionTypes, tm \in {-1, 10}, q \in {-1, 5},
            sp \in SourcePlayers, uo \in {-1, 42}, x1 \in {-1, 1}, r \in AreaRests :
            item = [is |-> "condition", c |-> Condition(t, tm, q, sp, uo, x1, r)]
       \/ \E t \in ItemEffectTypes, sp \in SourcePlayers, tp \in TargetPlayers,
            msg \in {<<>>, <<"h", "\"", "\n">>}, dt \in {-1, 10},
            lx \in {-1, 3}, ly \in {-1, 4}, x1 \in {-1, 1}, r \in AreaRests,
            u \in {-1, 4, 9999}, q \in {-1, 5} :
            \E tid \in TriggerRefs(t) :
               item = [is |-> "effect",
                       e |-> Effect(t, sp, tp, msg, dt, lx, ly, x1, r, u, q, tid)]
    /\ lines = <<>>
    /\ model = <<>>
    /\ outputs = <<>>
    /\ exists = TRUE
    /\ data = <<>>
    /\ dirCreated = FALSE
    /\ files = EmptyFiles
    /\ writes = <<>>
    /\ printed = <<>>
    /\ idx = 0
    /\ result = "none"
    /\ error = "none"
    /\ input = <<>>
    /\ pos = 0
    /\ scenario_count = 0
    /\ scenarios = <<>>
    /\ exit_status = -1
    /\ GenIdle
    /\ offsets = <<>>
    /\ extracted_files = <<>>

otherVars == <<exists, data, dirCreated, files, writes, printed, result, error,
               scanVars, dirVars, genVars>>

\* lines 356..393, for one condition
RenderCondition ==
    /\ pc = "item"
    /\ item.is = "condition"
    /\ lines' = ConditionLines(0, item.c)
    /\ pc' = "rendered"
    /\ UNCHANGED <<idx, model, outputs, item, otherVars, exit_status>>

\* lines 397..465, for one effect
RenderEffect ==
    /\ pc = "item"
    /\ item.is = "effect"
    /\ lines' = EffectLines(0, item.e)
    /\ pc' = "rendered"
    /\ UNCHANGED <<idx, model, outputs, item, otherVars, exit_status>>

NextItem == RenderCondition \/ RenderEffect

SpecItem == InitItem /\ [][NextItem]_vars

\* the names of the named parameters of a statement
ParamNames(line) == {line.params[k][1] : k \in 1..Len(line.params)} \ {""}

\* the one line rendered is a statement (not a skipped-type comment)
RenderedStatement ==
    pc = "rendered" /\ lines[1].kind \in {"new_condition", "new_effect"}

(***************************************************************************)
(* C6: for an effect whose operation has a whitelist in                    *)
(* EFFECT_VALID_PARAMS, the named parameters of the emitted statement are  *)
(* a subset of that whitelist (hence at most as many as the whitelist      *)
(* has), whatever the generic fields of the effect hold.                   *)
(***************************************************************************)
C6_WhitelistContainment ==
    (RenderedStatement /\ item.is = "effect"
        /\ lines[1].method \in DOMAIN EFFECT_VALID_PARAMS) =>
        /\ ParamNames(lines[1]) \subseteq EFFECT_VALID_PARAMS[lines[1].method]
        /\ Len(lines[1].params) <= Cardinality(EFFECT_VALID_PARAMS[lines[1].method])

\* send_chat (whitelist of 2) rendered from an effect with every field set
C6_Witness ==
    /\ RenderedStatement /\ item.is = "effect"
    /\ lines[1].method = "send_chat"
    /\ item.e.target_player.v # -1 /\ item.e.display_time # -1
    /\ item.e.location_x # -1 /\ item.e.location_y # -1
    /\ item.e.area_x1 # -1 /\ item.e.area_y1 # -1 /\ item.e.area_x2 # -1
    /\ item.e.area_y2 # -1 /\ item.e.object_list_unit_id # -1
    /\ item.e.quantity # -1 /\ item.e.source_player.v # -1
    /\ item.e.message # <<>>
    /\ Len(lines[1].params) = 2

(***************************************************************************)
(* C7: a source_player or target_player that holds -1, as an integer or as *)
(* an enum-like value, yields no such parameter in the statement of a      *)
(* condition or of an effect: no PlayerId symbol is emitted for it.        *)
(***************************************************************************)
C7_SentinelPlayerOmitted ==
    RenderedStatement =>
        LET it == IF item.is = "condition" THEN item.c ELSE item.e
        IN  /\ it.source_player.v = -1 =>
                "source_player" \notin ParamNames(lines[1])
            /\ (item.is = "effect" /\ it.target_player.v = -1) =>
                "target_player" \notin ParamNames(lines[1])
            /\ \A k \in 1..Len(lines[1].params) :
                 lines[1].params[k][2][1] = "sym"
                 /\ lines[1].params[k][1] \in {"source_player", "target_player"} =>
                    lines[1].params[k][2][2] =
                        player_map[it[lines[1].params[k][1]].v]

\* destroy_object rendered from a condition whose source_player is -1,
\* and change_ownership from an effect whose players are both -1
C7_Witness ==
    /\ RenderedStatement
    /\ \/ /\ item.is = "condition"
          /\ lines[1].method = "destroy_object"
          /\ item.c.source_player = EnumPlayer(-1)
          /\ item.c.quantity # -1
       \/ /\ item.is = "effect"
          /\ lines[1].method = "change_ownership"
          /\ item.e.source_player = IntPlayer(-1)
          /\ item.e.target_player = EnumPlayer(-1)

(***************************************************************************)
(* SpecConv: convert_scenario_to_python on a decoded scenario, run twice.  *)
(***************************************************************************)
\* a scenario holds at most MaxUnits placed objects
MaxUnits == 2

\* a scenario holds at most MaxTriggers triggers
MaxTriggers == 2

\* line 333: at most 10 unknown unit IDs are listed
NoteLimit == 10

\* the members of the library's PlayerId, in the order of line 304; the value
\* of the k-th member is k - 1
PlayerIdEnum ==
    <<"GAIA", "ONE", "TWO", "THREE", "FOUR", "FIVE", "SIX", "SEVEN", "EIGHT">>

\* os.path.basename / splitext of scenario_path
BaseName == "scn"

Blank == [kind |-> ""]

Text(t) == [kind |-> "text", text |-> t]

\* lines 263..289
HeaderLines ==
    <<Text("\"\"\""),
      [kind |-> "Auto-generated from: ", file |-> BaseName],
      Text("Generated by scenario_to_python.py"),
      Text("\"\"\""),
      Blank,
      Text("import sys"),
      Text("import io"),
      Text("sys.stdout = io.TextIOWrapper(sys.stdout.buffer, encoding='utf-8', errors='replace')"),
      Text("sys.stderr = io.TextIOWrapper(sys.stderr.buffer, encoding='utf-8', errors='replace')"),
      Blank,
      Text("from AoE2ScenarioParser.scenarios.aoe2_de_scenario import AoE2DEScenario"),
      Text("from AoE2ScenarioParser.datasets.players import PlayerId"),
      Text("from AoE2ScenarioParser.datasets.units import UnitInfo"),
      Text("from AoE2ScenarioParser.datasets.buildings import BuildingInfo"),
      Text("from AoE2ScenarioParser.datasets.trigger_lists import *"),
      Text("from AoE2ScenarioParser.datasets.techs import TechInfo"),
      Text("from AoE2ScenarioParser.datasets.heroes import HeroInfo"),
      Text("from AoE2ScenarioParser.datasets.other import OtherInfo"),
      Blank,
      Text("# Create scenario"),
      Text("scenario = AoE2DEScenario.from_default()"),
      Blank,
      Text("# Get managers"),
      Text("unit_manager = scenario.unit_manager"),
      Text("trigger_manager = scenario.trigger_manager"),
      Text("map_manager = scenario.map_manager"),
      Blank>>

\* lines 292..300
MapSizeLines(map_size) ==
    <<Text("# Set map size"),
      [kind |-> "map_manager.map_size = ", map_size |-> map_size],
      Blank,
      Text("# ============================================================"),
      Text("# UNITS AND BUILDINGS"),
      Text("# ============================================================")>>

\* round(v, 1) of a coordinate given in hundredths, in tenths (no coordinate
\* here lies halfway between two tenths)
Round1(h) == (h + 5) \div 10

\* lines 316..327: the line of one placed object
UnitLine(player_name, unit) ==
    IF unit.unit_const \in DOMAIN unit_id_map
    THEN [kind |-> "unit_manager.add_unit", player |-> player_name,
          unit_const |-> Sym(unit_id_map[unit.unit_const]),
          x |-> Round1(unit.x), y |-> Round1(unit.y)]
    ELSE [kind |-> "# unit_manager.add_unit  # Unknown unit ID",
          player |-> player_name, unit_const |-> Num(unit.unit_const),
          x |-> Round1(unit.x), y |-> Round1(unit.y)]

\* lines 306..327 with the else branch of lines 325..327 appending no line: a
\* placed object whose unit_const is not in unit_id_map leaves no trace
PlayerLinesKnownOnly(units, p) ==
    LET player_name == get_player_name(EnumPlayer(p))
        known == SelectSeq(units, LAMBDA u : u.unit_const \in DOMAIN unit_id_map)
    IN  IF units = <<>> \/ player_name = None THEN <<>>
        ELSE <<Blank, [kind |-> "# --- player", pname |-> PlayerIdEnum[p + 1],
                       count |-> Len(units)]>>
             \o [k \in 1..Len(known) |-> UnitLine(player_name, known[k])]

\* lines 306..327: the lines of the player whose PlayerId value is p
PlayerLines(units, p) ==
    LET player_name == get_player_name(EnumPlayer(p))
    IN  IF units = <<>> \/ player_name = None THEN <<>>
        ELSE <<Blank, [kind |-> "# --- player", pname |-> PlayerIdEnum[p + 1],
                       count |-> Len(units)]>>
             \o [k \in 1..Len(units) |-> UnitLine(player_name, units[k])]

\* lines 304..329: the loop over PlayerId
AllPlayerLines(m) ==
    Flatten1([k \in 1..Len(PlayerIdEnum) |-> PlayerLines(m.units[k - 1], k - 1)])

\* lines 321..326: unknown_unit_ids after the loop
UnknownUnitIds(m) ==
    UNION {{m.units[p][k].unit_const : k \in 1..Len(m.units[p])} : p \in DOMAIN m.units}
    \ DOMAIN unit_id_map

\* the orders in which a set can be iterated
IterationOrders(S) ==
    {o \in [1..Cardinality(S) -> S] : \A a, b \in 1..Cardinality(S) : o[a] = o[b] => a = b}

RECURSIVE InsertSorted(_, _)
InsertSorted(x, s) ==
    IF s = <<>> THEN <<x>>
    ELSE IF x <= Head(s) THEN <<x>> \o s
    ELSE <<Head(s)>> \o InsertSorted(x, Tail(s))

RECURSIVE SortInts(_)
SortInts(s) == IF s = <<>> THEN <<>> ELSE InsertSorted(Head(s), SortInts(Tail(s)))

\* list(unknown_unit_ids): the elements in the order of iteration
unsorted(iterated) == iterated

\* line 333: sorted(unknown_unit_ids), from the elements in the order of iteration
sorted(iterated) == SortInts(iterated)

\* lines 331..335
NoteLines(unknown_unit_ids, iterated) ==
    (IF unknown_unit_ids # {}
     THEN <<Blank, [kind |-> "# NOTE: unknown unit IDs were commented out",
                    count |-> Cardinality(unknown_unit_ids),
                    ids |-> SubSeq(sorted(iterated), 1,
                                   Min(NoteLimit, Len(iterated)))]>>
     ELSE <<>>)
    \o <<Blank>>

\* lines 339..342
TriggerBanner ==
    <<Text("# ============================================================"),
      Text("# TRIGGERS"),
      Text("# ============================================================"),
      Blank>>

RECURSIVE Digits(_)
Digits(n) ==
    IF n < 10 THEN <<<<"0", "1", "2", "3", "4", "5", "6", "7", "8", "9">>[n + 1]>>
    ELSE Digits(n \div 10) \o Digits(n % 10)

\* line 346: trigger_name
TriggerName(i, trigger) ==
    IF trigger.name # <<>> THEN EscapeName(trigger.name)
    ELSE <<"T", "r", "i", "g", "g", "e", "r", " ">> \o Digits(i)

\* lines 345..467 with a trigger that has no condition and no effect left out
TriggerLinesSkippingEmpty(i, trigger) ==
    IF trigger.conditions = <<>> /\ trigger.effects = <<>> THEN <<>>
    ELSE <<[kind |-> "# Trigger: ", tname |-> TriggerName(i, trigger)],
           [kind |-> "trigger_manager.add_trigger", var |-> i,
            tname |-> TriggerName(i, trigger)]>>
         \o (IF ~trigger.enabled THEN <<[kind |-> ".enabled = False", var |-> i]>>
             ELSE <<>>)
         \o Flatten1([k \in 1..Len(trigger.conditions) |->
                         ConditionLines(i, trigger.conditions[k])])
         \o Flatten1([k \in 1..Len(trigger.effects) |->
                         EffectLines(i, trigger.effects[k])])
         \o <<Blank>>

\* lines 345..467 with the loop over the effects before the loop over the
\* conditions
TriggerLinesEffectsFirst(i, trigger) ==
    <<[kind |-> "# Trigger: ", tname |-> TriggerName(i, trigger)],
      [kind |-> "trigger_manager.add_trigger", var |-> i,
       tname |-> TriggerName(i, trigger)]>>
    \o (IF ~trigger.enabled THEN <<[kind |-> ".enabled = False", var |-> i]>>
        ELSE <<>>)
    \o Flatten1([k \in 1..Len(trigger.effects) |->
                    EffectLines(i, trigger.effects[k])])
    \o Flatten1([k \in 1..Len(trigger.conditions) |->
                    ConditionLines(i, trigger.conditions[k])])
    \o <<Blank>>

\* lines 345..467: the lines of trigger number i (0-based)
TriggerLines(i, trigger) ==
    <<[kind |-> "# Trigger: ", tname |-> TriggerName(i, trigger)],
      [kind |-> "trigger_manager.add_trigger", var |-> i,
       tname |-> TriggerName(i, trigger)]>>
    \o (IF ~trigger.enabled THEN <<[kind |-> ".enabled = False", var |-> i]>>
        ELSE <<>>)
    \o Flatten1([k \in 1..Len(trigger.conditions) |->
                    ConditionLines(i, trigger.conditions[k])])
    \o Flatten1([k \in 1..Len(trigger.effects) |->
                    EffectLines(i, trigger.effects[k])])
    \o <<Blank>>

\* lines 470..476
SaveLines ==
    <<Text("# ============================================================"),
      Text("# SAVE SCENARIO"),
      Text("# ============================================================"),
      [kind |-> "scenario.write_to_file", base |-> BaseName],
      Blank,
      [kind |-> "print(\"Scenario saved as: \")", base |-> BaseName]>>

\* a placed object with its owner (a PlayerId value); coordinates in hundredths
ObjectKinds ==
    { [owner |-> 0, unit_const |-> 4, x |-> 150, y |-> 237],
      [owner |-> 1, unit_const |-> 9999, x |-> 1000, y |-> 1204],
      [owner |-> 1, unit_const |-> 109, x |-> 2000, y |-> 2000],
      [owner |-> 2, unit_const |-> 8888, x |-> 311, y |-> 0] }

NoPlayer == IntPlayer(-1)

NoArea == <<-1, -1, -1>>

TriggerKinds ==
    { [name |-> <<"G", "o">>, enabled |-> TRUE,
       conditions |-> <<Condition(8, 10, -1, NoPlayer, -1, -1, NoArea)>>,
       effects |-> <<Effect(3, IntPlayer(1), NoPlayer, <<"h", "i">>, -1, -1, -1,
                            -1, NoArea, -1, -1, -1)>>],
      [name |-> <<>>, enabled |-> FALSE,
       conditions |-> <<Condition(34, -1, 5, IntPlayer(1), -1, -1, NoArea),
                        Condition(6, -1, 5, NoPlayer, 42, -1, NoArea),
                        Condition(99, 10, 5, EnumPlayer(2), 42, 1, <<2, 7, 8>>)>>,
       effects |-> <<Effect(0, NoPlayer, NoPlayer, <<>>, -1, -1, -1, -1, NoArea, -1, -1, -1),
                     Effect(64, IntPlayer(1), IntPlayer(2), <<"x">>, 10, 3, 4, 1,
                            <<2, 7, 8>>, 4, 5, -1),
                     Effect(5, NoPlayer, NoPlayer, <<>>, -1, -1, -1, -1, NoArea, -1, -1, 1)>>],
      [name |-> <<"a", "\"", "\n">>, enabled |-> TRUE,
       conditions |-> <<>>,
       effects |-> <<Effect(8, IntPlayer(1), NoPlayer, <<>>, -1, 3, 4, -1, NoArea,
                            9999, -1, -1),
                     Effect(77, NoPlayer, NoPlayer, <<>>, -1, -1, -1, -1, NoArea, -1, -1, -1),
                     Effect(11, EnumPlayer(2), NoPlayer, <<>>, -1, -1, -1, 1,
                            <<2, 7, 8>>, 4, -1, -1)>>],
      [name |-> <<"E">>, enabled |-> TRUE, conditions |-> <<>>, effects |-> <<>>],
      [name |-> <<"N">>, enabled |-> FALSE,
       conditions |-> <<Condition(0, -1, -1, NoPlayer, -1, -1, NoArea),
                        Condition(-1, -1, -1, NoPlayer, -1, -1, NoArea)>>,
       effects |-> <<>>] }

RECURSIVE SeqsUpTo(_, _)
SeqsUpTo(S, n) ==
    IF n = 0 THEN {<<>>}
    ELSE LET prev == SeqsUpTo(S, n - 1)
         IN  prev \cup {Append(q, x) : q \in prev, x \in S}

\* unit_manager.get_player_units(p) for every PlayerId value p
UnitsByPlayer(objects) ==
    [p \in 0..8 |-> SelectSeq(objects, LAMBDA o : o.owner = p)]

InitConv ==
    /\ pc = "start"
    /\ exists \in BOOLEAN
    /\ \E objects \in (IF exists THEN SeqsUpTo(ObjectKinds, MaxUnits) ELSE {<<>>}),
          triggers \in (IF exists THEN SeqsUpTo(TriggerKinds, MaxTriggers) ELSE {<<>>}) :
          model = [map_size |-> 120, units |-> UnitsByPlayer(objects),
                   triggers |-> triggers]
    /\ lines = <<>>
    /\ outputs = <<>>
    /\ item = <<>>
    /\ idx = 0
    /\ data = <<>>
    /\ dirCreated = FALSE
    /\ files = EmptyFiles
    /\ writes = <<>>
    /\ printed = <<>>
    /\ result = "none"
    /\ error = "none"
    /\ input = <<>>
    /\ pos = 0
    /\ scenario_count = 0
    /\ scenarios = <<>>
    /\ exit_status = -1
    /\ GenIdle
    /\ offsets = <<>>
    /\ extracted_files = <<>>

\* lines 506..508: the scenario file does not exist
ConvNotFound ==
    /\ pc = "start"
    /\ ~exists
    /\ printed' = Append(printed, <<"Error: File not found">>)
    /\ exit_status' = 1
    /\ pc' = "exit"
    /\ UNCHANGED <<idx, model, lines, outputs, item, exists, data, dirCreated,
                   files, writes, result, error, scanVars, dirVars, genVars>>

\* lines 259..300: the header and the map size
ConvStart ==
    /\ pc = "start"
    /\ exists
    /\ lines' = HeaderLines \o MapSizeLines(model.map_size)
    /\ pc' = "units"
    /\ UNCHANGED <<idx, model, outputs, item, otherVars, exit_status>>

\* lines 302..335: the placed objects of every player and the note on the
\* unknown unit IDs, whose set is iterated in some order
ConvUnits ==
    /\ pc = "units"
    /\ \E iterated \in IterationOrders(UnknownUnitIds(model)) :
         lines' = lines \o AllPlayerLines(model)
                        \o NoteLines(UnknownUnitIds(model), iterated)
    /\ pc' = "triggers"
    /\ idx' = 0
    /\ UNCHANGED <<model, outputs, item, otherVars, exit_status>>

\* lines 338..467: one iteration of the loop over the triggers (the banner of
\* lines 339..342 comes before the first)
ConvTrigger ==
    /\ pc = "triggers"
    /\ idx < Len(model.triggers)
    /\ lines' = lines \o (IF idx = 0 THEN TriggerBanner ELSE <<>>)
                      \o TriggerLines(idx, model.triggers[idx + 1])
    /\ idx' = idx + 1
    /\ UNCHANGED <<pc, model, outputs, item, otherVars, exit_status>>

\* lines 469..492: the save statements; python_code is returned
ConvSave ==
    /\ pc = "triggers"
    /\ idx = Len(model.triggers)
    /\ lines' = lines \o SaveLines
    /\ outputs' = Append(outputs, lines')
    /\ pc' = "done"
    /\ UNCHANGED <<idx, model, item, otherVars, exit_status>>

\* line 510 and the end of the process: main returns (exit status 0)
ConvExit ==
    /\ pc = "done"
    /\ exit_status = -1
    /\ exit_status' = 0
    /\ UNCHANGED <<pc, idx, model, lines, outputs, item, otherVars>>

\* the converter is run a second time on the same decoded scenario
ConvAgain ==
    /\ pc = "done"
    /\ Len(outputs) < 2
    /\ lines' = <<>>
    /\ idx' = 0
    /\ pc' = "start"
    /\ exit_status' = -1
    /\ UNCHANGED <<model, outputs, item, otherVars>>

NextConv ==
    \/ ConvNotFound \/ ConvStart \/ ConvUnits \/ ConvTrigger \/ ConvSave
    \/ ConvExit \/ ConvAgain

SpecConv == InitConv /\ [][NextConv]_vars

\* the number of triggers whose lines are in lines
TriggersEmitted ==
    IF pc = "triggers" THEN idx
    ELSE IF pc = "done" THEN Len(model.triggers)
    ELSE 0

\* the position in lines of the add_trigger statement of trigger number i
AddTriggerAt(i) ==
    CHOOSE j \in 1..Len(lines) :
        lines[j].kind = "trigger_manager.add_trigger" /\ lines[j].var = i

\* the position in lines that belongs to the k-th item (conditions first, then
\* effects) of trigger number i
ItemPosition(i, k) ==
    AddTriggerAt(i) + (IF model.triggers[i + 1].enabled THEN 0 ELSE 1) + k

(***************************************************************************)
(* C5: for every condition or effect whose type code is outside the        *)
(* dictionary (CONDITION_NAMES, EFFECT_NAMES), the line at that item's     *)
(* position in the trigger is the skipped-type comment that carries this   *)
(* exact code.                                                             *)
(***************************************************************************)
C5_UnknownCodeMarker ==
    \A i \in 0..(TriggersEmitted - 1) :
        LET t == model.triggers[i + 1]
        IN  /\ \E j \in 1..Len(lines) :
                 lines[j].kind = "trigger_manager.add_trigger" /\ lines[j].var = i
            /\ \A k \in 1..Len(t.conditions) :
                 t.conditions[k].condition_type \notin DOMAIN CONDITION_NAMES =>
                    lines[ItemPosition(i, k)] =
                        [kind |-> "# Skipped condition type",
                         code |-> t.conditions[k].condition_type]
            /\ \A k \in 1..Len(t.effects) :
                 t.effects[k].effect_type \notin DOMAIN EFFECT_NAMES =>
                    lines[ItemPosition(i, Len(t.conditions) + k)] =
                        [kind |-> "# Skipped effect type",
                         code |-> t.effects[k].effect_type]

\* a conversion is complete whose second trigger holds conditions with the
\* unknown codes 34 and 99 and an effect with the unknown code 64
C5_Witness ==
    /\ pc = "done"
    /\ Len(model.triggers) = 2
    /\ Len(model.triggers[2].conditions) = 3
    /\ model.triggers[2].conditions[1].condition_type = 34
    /\ model.triggers[2].conditions[3].condition_type = 99
    /\ model.triggers[2].effects[2].effect_type = 64
    /\ \E j \in 1..Len(lines) : lines[j] = [kind |-> "# Skipped effect type", code |-> 64]

(***************************************************************************)
(* C8: two runs of the converter on the same decoded scenario return the   *)
(* same text, line for line, the note on the unknown unit IDs included,    *)
(* whatever the order in which the set of unknown IDs is iterated.         *)
(***************************************************************************)
C8_IdempotentEmission == Len(outputs) = 2 => outputs[1] = outputs[2]

\* both runs are complete, on a scenario with two unknown unit IDs and a trigger
C8_Witness ==
    /\ Len(outputs) = 2
    /\ Cardinality(UnknownUnitIds(model)) = 2
    /\ model.triggers # <<>>
    /\ \E j \in 1..Len(outputs[2]) :
         /\ outputs[2][j].kind = "# NOTE: unknown unit IDs were commented out"
         /\ outputs[2][j].ids = <<8888, 9999>>

\* the process has ended
Exited == exit_status # -1

(***************************************************************************)
(* C11 (as stated): when the input path does not exist, the tool prints    *)
(* the file-not-found error and ends with a non-zero exit status.          *)
(* Violated by the heuristic-scan extractor: extract_scenarios prints the  *)
(* error and returns [], and main then returns normally, so the exit       *)
(* status is 0.                                                            *)
(***************************************************************************)
C11_Original ==
    (~exists /\ Exited) =>
        /\ exit_status # 0
        /\ \E k \in 1..Len(printed) : printed[k] = <<"Error: File not found">>

\* the byte range of the k-th entry written by extract_scenarios (lines 66..73)
ScanRanges ==
    [k \in 1..Len(writes) |->
        [start |-> offsets[k], end |-> EndOffset(data, offsets, k - 1),
         len |-> Len(writes[k].bytes)]]

\* the byte range of the k-th entry written by extract_campaign (lines 54..55
\* and 90..91): as the record declares it, and the bytes that were read
DirRanges ==
    [k \in 1..Len(writes) |->
        [start |-> scenarios[k].offset,
         end |-> scenarios[k].offset + scenarios[k].size,
         len |-> Len(writes[k].bytes)]]

\* every range lies within a buffer of n bytes, and no two ranges share a byte
RangesOk(ranges, n) ==
    /\ \A k \in 1..Len(ranges) :
          ranges[k].start <= ranges[k].end /\ ranges[k].end <= n
    /\ \A j, k \in 1..Len(ranges) :
          j < k =>
             \/ ranges[j].len = 0
             \/ ranges[k].len = 0
             \/ ranges[j].start + ranges[j].len <= ranges[k].start
             \/ ranges[k].start + ranges[k].len <= ranges[j].start

(***************************************************************************)
(* C12 (as stated), for the directory-header extractor: the byte ranges of *)
(* the extracted entries lie within the buffer and are pairwise            *)
(* non-overlapping.  Violated: offset and size are taken from the records  *)
(* as they are, so a range may end beyond the end of the file and two      *)
(* records may name the same bytes.                                        *)
(***************************************************************************)
C12_Original == RangesOk(DirRanges, Len(data))

\* the same property for the heuristic-scan extractor, whose ranges are the
\* gaps between consecutive confirmed offsets
C12_ScanRanges == RangesOk(ScanRanges, Len(data))

\* the add_trigger statements emitted so far, in the order of the text
AddTriggerLines ==
    SelectSeq(lines, LAMBDA l : l.kind = "trigger_manager.add_trigger")

(***************************************************************************)
(* C13: the converter emits exactly one add_trigger statement per source   *)
(* trigger processed so far; the k-th of them (0-based) is bound to the    *)
(* variable trigger_k and carries the name of the k-th source trigger      *)
(* (escaped, or "Trigger k" when the trigger is unnamed), whether the      *)
(* trigger is unnamed, disabled, empty, or has only skipped items.         *)
(***************************************************************************)
C13_TriggerOrdinals ==
    /\ Len(AddTriggerLines) = TriggersEmitted
    /\ \A k \in 1..Len(AddTriggerLines) :
          /\ AddTriggerLines[k].var = k - 1
          /\ AddTriggerLines[k].tname =
                (IF model.triggers[k].name # <<>>
                 THEN EscapeName(model.triggers[k].name)
                 ELSE <<"T", "r", "i", "g", "g", "e", "r", " ">> \o Digits(k - 1))

\* a conversion is complete of an empty trigger followed by a disabled trigger
\* whose two conditions are both skipped
C13_Witness ==
    /\ pc = "done"
    /\ Len(model.triggers) = 2
    /\ model.triggers[1].conditions = <<>> /\ model.triggers[1].effects = <<>>
    /\ ~model.triggers[2].enabled
    /\ Len(model.triggers[2].conditions) = 2 /\ model.triggers[2].effects = <<>>
    /\ Len(AddTriggerLines) = 2
    /\ AddTriggerLines[2].var = 1

(***************************************************************************)
(* C14 (as stated): the statement emitted for an activate_trigger or       *)
(* deactivate_trigger effect carries the parameter trigger_id with the     *)
(* effect's trigger_id as it is.  Violated: no branch of lines 408..462    *)
(* reads effect.trigger_id, so the statement has no parameter at all.      *)
(***************************************************************************)
C14_Original ==
    (RenderedStatement /\ item.is = "effect"
        /\ lines[1].method \in {"activate_trigger", "deactivate_trigger"}) =>
        \E k \in 1..Len(lines[1].params) :
            lines[1].params[k] = <<"trigger_id", Num(item.e.trigger_id)>>

\* the lines emitted for placed objects, in the order of the text
ObjectLines ==
    SelectSeq(lines, LAMBDA l :
        l.kind \in {"unit_manager.add_unit",
                    "# unit_manager.add_unit  # Unknown unit ID"})

\* the number of placed objects of the decoded scenario, over all the players
PlacedObjects == SumSeq([k \in 1..9 |-> Len(model.units[k - 1])])

\* the loop over the players (lines 304..329) is over
UnitsEmitted == pc \in {"triggers", "done"}

(***************************************************************************)
(* C15: once the loop over the players is over, the text holds exactly one *)
(* object line per placed object; the lines of a player come in the order  *)
(* of that player's objects, and the k-th is an add_unit statement with    *)
(* the symbolic name when the unit_const is in the name table, otherwise   *)
(* the commented-out statement flagged "Unknown unit ID" with the raw      *)
(* unit_const; both carry the owner and the rounded position.              *)
(***************************************************************************)
C15_OneLinePerObject ==
    UnitsEmitted =>
        /\ Len(ObjectLines) = PlacedObjects
        /\ \A p \in 0..8 :
              LET mine == SelectSeq(ObjectLines, LAMBDA l : l.player = player_map[p])
                  units == model.units[p]
              IN  /\ Len(mine) = Len(units)
                  /\ \A k \in 1..Len(units) :
                        /\ mine[k].x = Round1(units[k].x)
                        /\ mine[k].y = Round1(units[k].y)
                        /\ IF units[k].unit_const \in DOMAIN unit_id_map
                           THEN /\ mine[k].kind = "unit_manager.add_unit"
                                /\ mine[k].unit_const =
                                      Sym(unit_id_map[units[k].unit_const])
                           ELSE /\ mine[k].kind =
                                      "# unit_manager.add_unit  # Unknown unit ID"
                                /\ mine[k].unit_const = Num(units[k].unit_const)

\* a conversion is complete of a scenario with a known object of GAIA and an
\* unknown object of player TWO
C15_Witness ==
    /\ pc = "done"
    /\ PlacedObjects = 2
    /\ Len(model.units[0]) = 1 /\ model.units[0][1].unit_const = 4
    /\ Len(model.units[2]) = 1 /\ model.units[2][1].unit_const = 8888
    /\ Len(ObjectLines) = 2
    /\ ObjectLines[2].kind = "# unit_manager.add_unit  # Unknown unit ID"

\* the number of entries that the running extractor found in its input
\* (confirmed offsets for extract_scenarios, records for extract_campaign)
EntriesFound == Len(offsets) + Len(scenarios)

\* the write of entry idx failed and the run has ended with that exception
WriteAborted == pc = "error" /\ error = "OSError"

(***************************************************************************)
(* C16 (as stated): a failed write of entry i does not end the run while   *)
(* later entries remain to be extracted.  Violated in both extractors: the *)
(* open()/write() of lines 81..82 (94..95 in extract_campaign) is not      *)
(* inside a try, so the exception leaves the loop and the later entries    *)
(* are never written.                                                      *)
(***************************************************************************)
C16_Original == ~(WriteAborted /\ idx + 1 < EntriesFound)

(***************************************************************************)
(* C17 (as stated): every record that the directory parser accepts holds a *)
(* name and a filename of the lengths that the record declares; a record   *)
(* whose declared length exceeds the bytes left is rejected.  Violated:    *)
(* f.read(name_len) and f.read(filename_len) (lines 63, 72) return the     *)
(* bytes that are left, and the shortened string is accepted.              *)
(***************************************************************************)
C17_Original ==
    \A k \in 1..Min(Len(scenarios), Len(DeclaredRecords)) :
        /\ Len(scenarios[k].name) = Len(DeclaredRecords[k].name)
        /\ Len(scenarios[k].filename) = Len(DeclaredRecords[k].filename)

\* extract_scenarios has scanned the buffer (line 57)
Scanned == exists /\ pc # "start"

\* the offsets returned by the scan, as a set
OffsetSet == {offsets[k] : k \in 1..Len(offsets)}

(***************************************************************************)
(* C18 (as stated): every offset at which the pattern matches and which is *)
(* followed by four zero bytes is among the offsets reported, also when    *)
(* the match overlaps an earlier match.  Violated: re.finditer resumes at  *)
(* the end of each match, so a marker that begins inside an earlier        *)
(* (unconfirmed) match is never tested.                                    *)
(***************************************************************************)
C18_Original ==
    Scanned =>
        \A p \in 0..(Len(data) - 1) :
            (MatchAt(data, p) /\ Confirmed(data, p)) => p \in OffsetSet

\* digit, period, digit, digit at offset p
ShapeAt(d, p) ==
    /\ p + 4 <= Len(d)
    /\ IsDigit(d[p + 1])
    /\ d[p + 2] = 46
    /\ IsDigit(d[p + 3])
    /\ IsDigit(d[p + 4])

\* no match of the pattern begins in the three bytes before offset p
NoMatchBefore(d, p) == \A q \in 0..(p - 1) : q + 4 > p => ~MatchAt(d, q)

(***************************************************************************)
(* C19 (as stated): every marker of the shape digit, period, digit, digit  *)
(* that is followed by four zero bytes (and overlaps no earlier match) is  *)
(* among the offsets reported, whatever its first digit.  Violated: the    *)
(* pattern of line 16 begins with the literal 1, so "2.00" followed by     *)
(* four zero bytes is not recognised.                                      *)
(***************************************************************************)
C19_Original ==
    Scanned =>
        \A p \in 0..(Len(data) - 1) :
            (ShapeAt(data, p) /\ Confirmed(data, p) /\ NoMatchBefore(data, p)) =>
                p \in OffsetSet

(***************************************************************************)
(* C20: every offset o that the scan returns is a confirmed match: the     *)
(* bytes at o are "1", ".", digit, digit, o + 8 does not exceed the length *)
(* of the buffer, and the bytes at o+4..o+7 are zero; the list is strictly *)
(* ascending.                                                              *)
(***************************************************************************)
C20_OnlyConfirmed ==
    Scanned =>
        \A k \in 1..Len(offsets) :
            LET o == offsets[k]
            IN  /\ o >= 0
                /\ o + 8 <= Len(data)
                /\ data[o + 1] = 49 /\ data[o + 2] = 46
                /\ IsDigit(data[o + 3]) /\ IsDigit(data[o + 4])
                /\ \A j \in (o + 5)..(o + 8) : data[j] = 0
                /\ k > 1 => offsets[k - 1] < o

\* two offsets were returned from a buffer that also holds a match which is
\* not followed by four zero bytes
C20_Witness ==
    /\ Scanned
    /\ Len(offsets) = 2
    /\ Len(finditer(data, 0)) = 3

(***************************************************************************)
(* C21: the k-th file written by extract_scenarios (k = 1, 2, ...) is      *)
(* named scenario_k.aoe2scenario and holds exactly the bytes of the buffer *)
(* from the k-th confirmed offset up to, and excluding, the next confirmed *)
(* offset, or up to the end of the buffer for the last one; the file on    *)
(* disk holds the same bytes.                                              *)
(***************************************************************************)
C21_VerbatimRanges ==
    \A k \in 1..Len(writes) :
        LET first == offsets[k] + 1
            last == IF k < Len(offsets) THEN offsets[k + 1] ELSE Len(data)
        IN  /\ writes[k].name = <<"scenario_", k, ".aoe2scenario">>
            /\ writes[k].bytes = [j \in 1..(last - first + 1) |-> data[first + j - 1]]
            /\ files[writes[k].name] = writes[k].bytes

\* two files were written, the first of which ends with a byte "x" that lies
\* between the first marker and the second
C21_Witness ==
    /\ pc = "done"
    /\ Len(writes) = 2
    /\ Len(writes[1].bytes) = 9
    /\ writes[1].bytes[9] = 120
    /\ Len(writes[2].bytes) = 8

\* where the k-th declared record ends in the complete file
RecordEnd(k) ==
    HeaderLen(input.hdr)
    + SumSeq([j \in 1..k |-> RecordLen(DeclaredRecords[j])])

\* a tag of the k-th declared record differs from RGE_STRING_ID
TagMismatch(k) ==
    \/ DeclaredRecords[k].tag1 # RGE_STRING_ID
    \/ DeclaredRecords[k].tag2 # RGE_STRING_ID

(***************************************************************************)
(* C22: a record that lies wholly within the file and one of whose two     *)
(* tags differs from 0x0A60 is parsed like any other: a warning naming the *)
(* tag is printed, the entry holds the declared size, offset, name and     *)
(* filename, and, once the run is complete, the entry has been written     *)
(* under its filename with the bytes read at its offset.                   *)
(***************************************************************************)
C22_TagMismatchOnlyWarns ==
    \A k \in 1..Min(Len(scenarios), Len(DeclaredRecords)) :
        (TagMismatch(k) /\ RecordEnd(k) <= Len(data)) =>
            LET r == DeclaredRecords[k]
                bad == IF r.tag1 # RGE_STRING_ID THEN r.tag1 ELSE r.tag2
            IN  /\ \E j \in 1..Len(printed) :
                      printed[j] = <<"Warning: Unexpected string ID", bad>>
                /\ scenarios[k] = [size |-> r.size,
                                   offset |-> DeclaredOffset(input, r),
                                   name |-> DecodeUtf8Replace(r.name),
                                   filename |-> DecodeUtf8Replace(r.filename)]
                /\ pc = "done" =>
                      /\ writes[k].name = DecodeUtf8Replace(r.filename)
                      /\ writes[k].bytes =
                            Slice(data, scenarios[k].offset,
                                  scenarios[k].offset + r.size)

\* a run is complete in which the first record has a wrong first tag and the
\* second a wrong second tag
C22_Witness ==
    /\ pc = "done"
    /\ Len(writes) = 2
    /\ DeclaredRecords[1].tag1 # RGE_STRING_ID
    /\ DeclaredRecords[2].tag2 # RGE_STRING_ID
    /\ writes[1].name = <<98, 49>>

(***************************************************************************)
(* C23 (as stated), for the timer condition, whose only meaningful field   *)
(* is the timer: the statement of a timer condition has no named           *)
(* parameter, whatever the other generic fields hold.  Violated: lines     *)
(* 371..390 consult no whitelist, so quantity, source_player, unit_object  *)
(* and the area are emitted for every operation when they are set.         *)
(***************************************************************************)
C23_Original ==
    (RenderedStatement /\ item.is = "condition" /\ lines[1].method = "timer") =>
        ParamNames(lines[1]) = {}

\* the group of statements that a line belongs to: 1 setup, 2 placed objects,
\* 3 triggers, 4 save; 0 for the blank lines, comments and fixed text that
\* occur in every group
Group(line) ==
    IF line.kind = "map_manager.map_size = " THEN 1
    ELSE IF line.kind \in {"# --- player", "unit_manager.add_unit",
                           "# unit_manager.add_unit  # Unknown unit ID"} THEN 2
    ELSE IF line.kind \in {"# Trigger: ", "trigger_manager.add_trigger",
                           ".enabled = False", "new_condition", "new_effect",
                           "# Skipped condition type", "# Skipped effect type"}
         THEN 3
    ELSE IF line.kind = "scenario.write_to_file" THEN 4
    ELSE 0

\* the PlayerId value whose symbol is sym
PlayerValue(sym) == CHOOSE p \in DOMAIN player_map : player_map[p] = sym

\* the line at the position of the k-th item of trigger number i is the
\* statement, or the skipped-type comment, of the condition cond
IsConditionLine(line, i, cond) ==
    IF cond.condition_type \in DOMAIN CONDITION_NAMES
       /\ CONDITION_NAMES[cond.condition_type] # None
    THEN line.kind = "new_condition" /\ line.var = i
         /\ line.method = CONDITION_NAMES[cond.condition_type]
    ELSE line.kind = "# Skipped condition type" /\ line.code = cond.condition_type

\* the same for the effect
IsEffectLine(line, i, effect) ==
    IF effect.effect_type \in DOMAIN EFFECT_NAMES
       /\ EFFECT_NAMES[effect.effect_type] # None
    THEN line.kind = "new_effect" /\ line.var = i
         /\ line.method = EFFECT_NAMES[effect.effect_type]
    ELSE line.kind = "# Skipped effect type" /\ line.code = effect.effect_type

(***************************************************************************)
(* C24: in the text built so far the statements come in the order setup    *)
(* (map size), placed objects, triggers, save: no statement of an earlier  *)
(* group follows one of a later group.  The object lines are grouped by    *)
(* player in the order of the PlayerId values; the add_trigger statements  *)
(* come in the order of the triggers, each followed by the lines of its    *)
(* conditions in list order and then those of its effects in list order;   *)
(* the text of a complete conversion holds exactly one save statement, an  *)
(* incomplete one none.                                                    *)
(***************************************************************************)
C24_StatementOrder ==
    /\ LET groups == SelectSeq([j \in 1..Len(lines) |-> Group(lines[j])],
                               LAMBDA g : g # 0)
       IN  \A j \in 1..(Len(groups) - 1) : groups[j] <= groups[j + 1]
    /\ LET owners == [j \in 1..Len(ObjectLines) |->
                         PlayerValue(ObjectLines[j].player)]
       IN  \A j \in 1..(Len(owners) - 1) : owners[j] <= owners[j + 1]
    /\ \A i \in 0..(TriggersEmitted - 1) :
          LET t == model.triggers[i + 1]
              nc == Len(t.conditions)
          IN  /\ i > 0 => AddTriggerAt(i - 1) < AddTriggerAt(i)
              /\ \A k \in 1..nc :
                    IsConditionLine(lines[ItemPosition(i, k)], i, t.conditions[k])
              /\ \A k \in 1..Len(t.effects) :
                    IsEffectLine(lines[ItemPosition(i, nc + k)], i, t.effects[k])
    /\ Cardinality({j \in 1..Len(lines) : Group(lines[j]) = 4})
          = (IF pc = "done" THEN 1 ELSE 0)

\* a conversion is complete of a scenario with objects of two players and a
\* trigger that has three conditions and three effects
C24_Witness ==
    /\ pc = "done"
    /\ Len(ObjectLines) = 2
    /\ ObjectLines[1].player # ObjectLines[2].player
    /\ \E i \in 1..Len(model.triggers) :
          Len(model.triggers[i].conditions) = 3 /\ Len(model.triggers[i].effects) = 3
    /\ Group(lines[Len(lines) - 2]) = 4

\* the effect rendered refers to an object type that is not in unit_id_map,
\* and its operation takes object_list_unit_id
UnresolvedObjectType ==
    /\ pc = "rendered" /\ item.is = "effect"
    /\ item.e.object_list_unit_id # -1
    /\ item.e.object_list_unit_id \notin DOMAIN unit_id_map
    /\ get_effect_name(item.e.effect_type) # None
    /\ "object_list_unit_id" \in ValidParams(get_effect_name(item.e.effect_type))

(***************************************************************************)
(* C25 (as stated): when an effect refers to an object type that is not in *)
(* the name table, the line emitted carries the raw code and marks it as   *)
(* unresolved: the line is not a plain statement, or the value of          *)
(* object_list_unit_id is not a plain number.  Violated: line 456 falls    *)
(* back to str(code), and the statement is emitted like any other, with    *)
(* nothing that marks the code as unresolved.                              *)
(***************************************************************************)
C25_Original ==
    UnresolvedObjectType =>
        \E k \in 1..Len(lines[1].params) :
            /\ lines[1].params[k][1] = "object_list_unit_id"
            /\ lines[1].params[k][2][2] = item.e.object_list_unit_id
            /\ \/ lines[1].kind # "new_effect"
               \/ lines[1].params[k][2][1] # "num"

(***************************************************************************)
(* The generator: ScenarioGenerator.generate_with_validation               *)
(*                                                                         *)
(* config.description is [text, fixes]: the text of the configuration and  *)
(* the lists of validation issues appended to it as fix prompts.  A code   *)
(* returned by generate_scenario is named by the number of its request.    *)
(***************************************************************************)
\* generate_with_validation is called with max_attempts in 0..MaxAttempts
MaxAttempts == 3

\* the issues lists of a validation that fails
IssueLists ==
    {<<"no town center">>, <<"few units", "no triggers">>, <<"syntax error">>}

\* the descriptions a configuration is created with
Descriptions == {"battle", "escort"}

\* the results of validate_scenario_code (lines 1331..1334, 1354)
ValidationResults ==
    {[valid |-> TRUE, issues |-> <<>>, warnings |-> w] : w \in {<<>>, <<"w">>}}
    \cup {[valid |-> FALSE, issues |-> i, warnings |-> <<>>] : i \in IssueLists}

\* line 1406: original_desc + fix_prompt, the prompt listing the issues
WithFixPrompt(desc, issues) == [desc EXCEPT !.fixes = Append(@, issues)]

\* lines 1404..1409: config.description is set to the description with the
\* fix prompt and then reset to original_desc before the next iteration
DescriptionForRetry(desc, issues) ==
    LET original_desc == desc
        modified == WithFixPrompt(original_desc, issues)
    IN  original_desc

InitGen ==
    /\ pc = "gen"
    /\ max_attempts \in 0..MaxAttempts
    /\ attempt = 0
    /\ \E text \in Descriptions :
         description = [text |-> text, fixes |-> <<>>]
    /\ requests = <<>>
    /\ validations = <<>>
    /\ code = 0
    /\ result = "none"
    /\ error = "none"
    /\ printed = <<>>
    /\ exit_status = -1
    /\ exists = TRUE
    /\ data = <<>>
    /\ dirCreated = FALSE
    /\ files = EmptyFiles
    /\ writes = <<>>
    /\ idx = 0
    /\ offsets = <<>>
    /\ extracted_files = <<>>
    /\ input = <<>>
    /\ pos = 0
    /\ scenario_count = 0
    /\ scenarios = <<>>
    /\ model = <<>>
    /\ lines = <<>>
    /\ outputs = <<>>
    /\ item = <<>>

\* lines 1361..1365 when the request fails: generate_scenario raises and the
\* exception leaves generate_with_validation
GenRequestFails ==
    /\ pc = "gen"
    /\ attempt < max_attempts
    /\ requests' = Append(requests, description)
    /\ pc' = "error"
    /\ error' = "RequestException"
    /\ UNCHANGED <<max_attempts, attempt, description, validations, code, result,
                   printed, exit_status, exists, data, dirCreated, files, writes,
                   idx, scanVars, dirVars, convVars>>

\* lines 1361..1409: one iteration of the loop: generate, validate, return
\* the code if it is valid, otherwise prepare the next attempt
GenAttempt ==
    /\ pc = "gen"
    /\ attempt < max_attempts
    /\ requests' = Append(requests, description)
    /\ code' = attempt + 1
    /\ \E validation \in ValidationResults :
         /\ validations' = Append(validations, validation)
         /\ IF validation.valid
            THEN /\ result' = <<code'>>
                 /\ pc' = "done"
                 /\ UNCHANGED <<attempt, description>>
            ELSE /\ description' =
                      (IF attempt < max_attempts - 1
                       THEN DescriptionForRetry(description, validation.issues)
                       ELSE description)
                 /\ attempt' = attempt + 1
                 /\ UNCHANGED <<pc, result>>
    /\ UNCHANGED <<max_attempts, error, printed, exit_status, exists, data,
                   dirCreated, files, writes, idx, scanVars, dirVars, convVars>>

\* lines 1411..1413: the loop is over without a valid code; the last code is
\* returned, and code is unbound when the loop made no iteration
GenExhausted ==
    /\ pc = "gen"
    /\ attempt >= max_attempts
    /\ printed' = Append(printed, <<"Max attempts reached">>)
    /\ IF code = 0
       THEN /\ pc' = "error"
            /\ error' = "UnboundLocalError"
            /\ UNCHANGED result
       ELSE /\ pc' = "done"
            /\ result' = <<code>>
            /\ UNCHANGED error
    /\ UNCHANGED <<genVars, exit_status, exists, data, dirCreated, files,
                   writes, idx, scanVars, dirVars, convVars>>

NextGen == GenRequestFails \/ GenAttempt \/ GenExhausted

SpecGen == InitGen /\ [][NextGen]_vars

(***************************************************************************)
(* C26 (as stated): every generation request after the first is made with  *)
(* the issues of the failed validation before it in config.description;    *)
(* at most max_attempts requests are made, and the run returns at the      *)
(* first valid validation.  Violated: line 1409 resets config.description  *)
(* to original_desc before the next iteration, so every request is made    *)
(* with the original description and the issues are never sent.            *)
(***************************************************************************)
C26_Original ==
    /\ Len(requests) <= max_attempts
    /\ \A i \in 1..Len(validations) :
          validations[i].valid => (i = Len(validations) /\ pc = "done"
                                    /\ result = <<i>>)
    /\ \A i \in 2..Len(requests) :
          \E j \in 1..Len(requests[i].fixes) :
              requests[i].fixes[j] = validations[i - 1].issues

(***************************************************************************)
(* C27: in the directory-header extractor no scenario file is written      *)
(* before all scenario_count records are parsed: while the records are     *)
(* read, and after a record (or the header) failed to parse, no file has   *)
(* been written, and whenever a file has been written the list of          *)
(* scenarios holds scenario_count entries.                                 *)
(***************************************************************************)
C27_ParseBeforeWrite ==
    /\ (pc = "records" \/ error = "struct.error") =>
           (writes = <<>> /\ files = EmptyFiles)
    /\ writes # <<>> => Len(scenarios) = scenario_count

\* the second record failed to parse after the first one was read: the
\* directory exists and nothing is written
C27_Witness ==
    /\ pc = "error"
    /\ error = "struct.error"
    /\ Len(scenarios) = 1
    /\ scenario_count = 2
    /\ scenarios[1].size > 0
    /\ dirCreated
    /\ writes = <<>>
    /\ files = EmptyFiles

(***************************************************************************)
(* C28 (as stated): no statement emitted for a condition or an effect has  *)
(* a named parameter whose value is the number -1, whatever the fields     *)
(* hold.  Violated: area_y1, area_x2 and area_y2 are tested against None   *)
(* only (lines 384..389 and 449..454) and location_y is not tested at all  *)
(* (lines 445..447), so each is emitted as -1 when area_x1 or location_x   *)
(* is set.                                                                 *)
(***************************************************************************)
C28_Original ==
    RenderedStatement =>
        \A k \in 1..Len(lines[1].params) :
            lines[1].params[k][2][1] = "num" => lines[1].params[k][2][2] # -1

(***************************************************************************)
(* C29: in the scan extractor two consecutive offsets returned by          *)
(* find_scenario_offsets differ by at least 8, and every entry written is  *)
(* at least 8 bytes long, begins with the four marker bytes followed by    *)
(* four zero bytes, and holds no other returned offset.                    *)
(***************************************************************************)
C29_EntriesApart ==
    Scanned =>
        /\ \A k \in 1..(Len(offsets) - 1) : offsets[k + 1] - offsets[k] >= 8
        /\ \A k \in 1..Len(writes) :
             LET bytes == writes[k].bytes
             IN  /\ Len(bytes) >= 8
                 /\ bytes[1] = 49 /\ bytes[2] = 46
                 /\ IsDigit(bytes[3]) /\ IsDigit(bytes[4])
                 /\ SubSeq(bytes, 5, 8) = ZeroBytes
                 /\ \A j \in 1..Len(offsets) :
                      j # k => ~(/\ offsets[j] >= offsets[k]
                                 /\ offsets[j] < offsets[k] + Len(bytes))

\* two entries were written whose offsets differ by exactly 8: the first
\* entry is a marker and four zero bytes and nothing else
C29_Witness ==
    /\ pc = "done"
    /\ Len(writes) = 2
    /\ offsets[2] - offsets[1] = 8
    /\ Len(writes[1].bytes) = 8
    /\ writes[2].bytes[1] = 49

(***************************************************************************)
(* C30 (as stated), for the directory-header extractor: after a successful *)
(* run the number of files produced equals the number of entries written   *)
(* and every entry's bytes are still the content of its file, whatever     *)
(* filenames the records declare.  Violated: the path is the declared      *)
(* filename (lines 92..93), so two records that declare the same filename  *)
(* are written to one file and the later entry replaces the earlier one.   *)
(***************************************************************************)
C30_Original ==
    pc = "done" =>
        /\ Cardinality(DOMAIN files) = Len(writes)
        /\ \A k \in 1..Len(writes) : files[writes[k].name] = writes[k].bytes

====
